---------------------------- MODULE Spec2Model ----------------------------
(***************************************************************************)
(* A model of cosmos_mongo_compare: the key selection and the sampling     *)
(* strategies of sampling.py, the retry helper of clients/cosmos_sql.py,   *)
(* the per-collection pipeline of orchestrator.py and the document diff of *)
(* compare.py.                                                             *)
(*                                                                         *)
(* Several state machines share the module.  Each has its own variables,   *)
(* its own initial predicate and its own next-state relation; the          *)
(* variables of the machines that are not running stay at their idle       *)
(* values.                                                                 *)
(*   SpecSelect    select_deterministic_keys over one key stream           *)
(*   SpecRetry     one source-driver operation against a throttling store  *)
(*   SpecSample    sample_source_documents over one source collection      *)
(*   Spec          run_compare over the configured collections             *)
(*   SpecPipeline  one collection, sampling and comparing call by call     *)
(*   SpecCompare   compare_documents over a pair of documents              *)
(***************************************************************************)
EXTENDS Integers, Sequences, FiniteSets, Bags, TLC

(***************************************************************************)
(* Optional values: None is the empty tuple, a present value x is <<x>>.   *)
(***************************************************************************)
None == << >>
Some(x) == <<x>>

(***************************************************************************)
(* Bounds of the key-selection model.                                      *)
(***************************************************************************)
MaxStream == 3
MaxSampleSize == 2
MaxIntKey == 2

(***************************************************************************)
(* Business-key values.  A key is an integer, a string or null.  A string  *)
(* key is represented by the number whose decimal text it is, so the       *)
(* string "1" is [kind |-> "str", n |-> 1]; Python's == between an int and *)
(* a str is False, which is record inequality here.                        *)
(***************************************************************************)
IntKey(i) == [kind |-> "int", n |-> i]
StrKey(i) == [kind |-> "str", n |-> i]
NullKey == [kind |-> "null", n |-> 0]
KeyValues == {IntKey(i) : i \in 1..MaxIntKey} \cup {StrKey(1)} \cup {NullKey}

(***************************************************************************)
(* str() of an int, as the f-string of _stable_score formats it.           *)
(***************************************************************************)
Digits == <<"0", "1", "2", "3", "4", "5", "6", "7", "8", "9">>
RECURSIVE IntText(_)
IntText(i) == IF i < 10 THEN Digits[i + 1]
              ELSE IntText(i \div 10) \o Digits[(i % 10) + 1]

\* f"{key_value}": an int prints its decimal text, a str prints itself.
KeyText(k) == IF k.kind = "null" THEN "None" ELSE IntText(k.n)

\* f"{seed}:{key_value}", the text that _stable_score hashes.
ScoreText(seed, k) == IntText(seed) \o ":" \o KeyText(k)

\* The seed of the run (test_sampling.py uses 7).
Seed == 7

ScoreTexts == {ScoreText(Seed, k) : k \in KeyValues \ {NullKey}}

\* The orders SHA-256 may put the hashed texts in: every injective ranking.
Digests == {d \in [ScoreTexts -> 0..(Cardinality(ScoreTexts) - 1)] :
              \A s, t \in ScoreTexts : s # t => d[s] # d[t]}


VARIABLES
  digest,          \* sha256(text)[:8] as an integer, per hashed text
  iter_keys,       \* the values iter_business_keys yields, in order
  k_sample_size,   \* sample_size
  max_scan_keys,   \* None or Some(K)
  heap,            \* the heapq list of (-score, key_value)
  scanned,         \* keys pulled from the iterator
  scored,          \* positions of the stream _stable_score was called on
  selected,        \* the returned list
  sel_pc           \* "idle", "scan", "finish", "done", "raised"

svars == <<digest, iter_keys, k_sample_size, max_scan_keys, heap, scanned,
           scored, selected, sel_pc>>

VARIABLES
  api,                  \* cfg.cosmos.api: "sql" or "mongo"
  operation,            \* the driver operation the engine calls
  retry_max_attempts,   \* self._retry_max_attempts
  retry_base_delay_ms,  \* self._retry_base_delay_ms
  attempt,              \* the loop variable of _query_items_with_retry
  exc,                  \* the exception the handler is looking at
  history,              \* what the store answered to each query, in order
  sleeps,               \* the delays time.sleep was called with, in ms
  yielded,              \* values a streaming query handed out so far
  op_result,            \* what the operation returned
  op_error,             \* what the operation raised
  rt_pc                 \* "idle", "call", "loop", "except", "direct", "returned", "raised"

qvars == <<api, operation, retry_max_attempts, retry_base_delay_ms, attempt, exc,
           history, sleeps, yielded, op_result, op_error, rt_pc>>

VARIABLES
  mode,                 \* cfg.sampling.mode
  seed,                 \* cfg.sampling.seed: None or Some(s)
  bucket_modulus,       \* None or Some(M); bucket_field is set exactly when it is
  bucket_count,         \* cfg.sampling.bucket_count
  det_max_scan_keys,    \* cfg.sampling.deterministic_max_scan_keys
  source_lookup_concurrency, \* cfg.sampling.source_lookup_concurrency
  src_docs,             \* the documents of the source collection
  mode_normalized,      \* the local of sample_source_documents
  ranked_bucket_ids,    \* bucket ids sorted by score
  bucket_start,         \* `start` of the bucket loop
  deduped_docs,         \* the dict of the bucket loop, in insertion order
  bucket_returned,      \* every document the bucket calls returned, in order
  det_keys,             \* what select_deterministic_keys returned
  fetched,              \* results of fetch_one already taken, in key order
  lookups,              \* the fetch_one call of each key: its state and result
  docs,                 \* the list _fetch_source_documents_by_keys builds
  driver_calls,         \* calls made to each source-driver operation
  sm_error,             \* TRUE when sample_source_documents raised
  sm_pc                 \* position in sample_source_documents

mvars == <<mode, seed, bucket_modulus, bucket_count, det_max_scan_keys,
           source_lookup_concurrency, src_docs, mode_normalized, ranked_bucket_ids,
           bucket_start, deduped_docs, bucket_returned, det_keys, fetched, lookups, docs,
           driver_calls, sm_error, sm_pc>>

VARIABLES
  source_total,         \* source.count_documents(collection)
  sample_size,          \* compute_sample_size(...)
  sampled               \* the list sample_source_documents returned

cvars == <<source_total, sample_size, sampled>>

VARIABLES
  single_collection,    \* --collection: None or Some(name)
  all_collections,      \* --all-collections
  cfg_collections,      \* cfg.collections: name -> CollectionConfig, for its keys
  collection_defaults,  \* cfg.collection_defaults
  sampling,             \* cfg.sampling.percentage and cfg.sampling.count
  compare_concurrency,  \* cfg.sampling.compare_concurrency
  source,               \* the source driver handle: "none", "open", "closed", "close_failed"
  target,               \* the target driver handle
  collections,          \* the list the loop runs over
  ci,                   \* index of the current collection in it
  journal,              \* the mismatch files: path -> the records of the file
  clock,                \* utc_now_iso() during the run, the ts of its journal records
  target_total,         \* target.count_documents(collection)
  stats,                \* the CollectionStats of the current collection
  candidates,           \* (key_value, src_doc) pairs
  tasks,                \* the compare_one call of each candidate
  processed,            \* results the draining loop consumed
  error,                \* the exception that ended run_compare, or "none"
  pc                    \* position in run_compare

rvars == <<single_collection, all_collections, cfg_collections, collection_defaults,
           sampling, compare_concurrency, source, target, collections, ci,
           journal, clock, target_total, stats, candidates, tasks, processed,
           error, pc>>

VARIABLES
  source_doc,           \* compare_documents: source_doc
  target_doc,           \* compare_documents: target_doc
  exclude_fields,       \* compare_documents: exclude_fields
  array_order_insensitive_paths, \* compare_documents: array_order_insensitive_paths
  diffs,                \* the list of Diff that compare_documents returned
  cmp_pc                \* "call" before compare_documents ran, "returned" after

dvars == <<source_doc, target_doc, exclude_fields, array_order_insensitive_paths, diffs,
           cmp_pc>>

VARIABLES
  cs_total,             \* compute_sample_size: total
  cs_percentage,        \* compute_sample_size: percentage, None or Some(p)
  cs_count,             \* compute_sample_size: count, None or Some(c)
  cs_size,              \* the value compute_sample_size returned
  cs_pc                 \* "call" before compute_sample_size ran, "returned" after

zvars == <<cs_total, cs_percentage, cs_count, cs_size, cs_pc>>

VARIABLES
  main_pc,              \* position in main
  main_error,           \* the exception that left main uncaught, or "none"
  exit_code             \* the exit status of the process: None while it runs

nvars == <<main_pc, main_error, exit_code>>

VARIABLES
  bk_key,               \* c_cfg.business_key, a field path
  bk_sampled,           \* the documents sample_source_documents returned
  bk_missing,           \* stats.source_missing_business_key
  bk_candidates,        \* candidates: (key_value, src_doc) pairs
  bk_lookups,           \* the key values target.find_by_business_key was called with
  bk_pc                 \* "build", "compare", "done"

kvars == <<bk_key, bk_sampled, bk_missing, bk_candidates, bk_lookups, bk_pc>>

VARIABLES
  point_lookup_calls,   \* CosmosSqlSourceClient._point_lookup_calls
  point_lookup_found,   \* CosmosSqlSourceClient._point_lookup_found
  lookup_threads,       \* per pool thread: its position in find_by_business_key,
                        \* its `found`, and the value it loaded for a `+= 1`
  lookup_pending,       \* calls of fetch_one the pool has not started yet
  lookups_completed,    \* calls of find_by_business_key that returned
  lookups_returned_doc  \* of these, the calls that returned a document

lvars == <<point_lookup_calls, point_lookup_found, lookup_threads, lookup_pending,
           lookups_completed, lookups_returned_doc>>

\* The variables of the functions and handlers modelled on their own.
evars == <<zvars, nvars, kvars, lvars>>

\* What the steps of each of them leave alone.
corevars == <<svars, qvars, mvars, cvars, rvars, dvars>>
NotSize == <<corevars, nvars, kvars, lvars>>
NotMain == <<svars, qvars, mvars, dvars, zvars, kvars, lvars>>
NotCandidates == <<corevars, zvars, nvars, lvars>>
NotPointLookup == <<corevars, zvars, nvars, kvars>>

vars == <<svars, qvars, mvars, cvars, rvars, dvars, evars>>

\* _stable_score(seed, key_value)
StableScore(d, k) == d[ScoreText(Seed, k)]

(***************************************************************************)
(* Python's < on the (-score, key_value) tuples of the heap: the first     *)
(* differing position decides; int < str raises TypeError.                 *)
(***************************************************************************)
TupleLess(a, b) ==
  IF a[1] # b[1] THEN (IF a[1] < b[1] THEN "lt" ELSE "ge")
  ELSE IF a[2] = b[2] THEN "ge"
  ELSE IF a[2].kind # b[2].kind THEN "TypeError"
  ELSE IF a[2].n < b[2].n THEN "lt" ELSE "ge"

Ok(h) == [ok |-> TRUE, heap |-> h]
Raised == [ok |-> FALSE, heap |-> << >>]

\* heapq._siftdown(heap, startpos, pos) with newitem held aside; positions
\* are Python's (0-based), the sequence is 1-based.
RECURSIVE SiftDown(_, _, _, _)
SiftDown(h, startpos, pos, newitem) ==
  IF pos > startpos
  THEN LET parentpos == (pos - 1) \div 2
           parent == h[parentpos + 1]
           c == TupleLess(newitem, parent)
       IN IF c = "TypeError" THEN Raised
          ELSE IF c = "lt"
               THEN SiftDown([h EXCEPT ![pos + 1] = parent], startpos, parentpos, newitem)
               ELSE Ok([h EXCEPT ![pos + 1] = newitem])
  ELSE Ok([h EXCEPT ![pos + 1] = newitem])

\* heapq._siftup(heap, pos): bubble the smaller child up to a leaf, then
\* sift newitem down from there.
RECURSIVE SiftUp(_, _, _, _)
SiftUp(h, startpos, pos, newitem) ==
  LET endpos == Len(h)
      childpos == 2 * pos + 1
      rightpos == childpos + 1
  IN IF childpos < endpos
     THEN LET c == IF rightpos < endpos
                   THEN TupleLess(h[childpos + 1], h[rightpos + 1])
                   ELSE "lt"
              pick == IF c = "lt" THEN childpos ELSE rightpos
          IN IF c = "TypeError" THEN Raised
             ELSE SiftUp([h EXCEPT ![pos + 1] = h[pick + 1]], startpos, pick, newitem)
     ELSE SiftDown(h, startpos, pos, newitem)

\* heapq.heappush(heap, item)
HeapPush(h, item) == SiftDown(Append(h, item), 0, Len(h), item)

\* heapq.heappop(heap), the heap it leaves
HeapPop(h) ==
  LET lastelt == h[Len(h)]
      rest == SubSeq(h, 1, Len(h) - 1)
  IN IF rest = << >> THEN Ok(rest)
     ELSE SiftUp([rest EXCEPT ![1] = lastelt], 0, 0, lastelt)

\* The orders a sequence can be put in.
PermutationsOf(s) == {[i \in DOMAIN s |-> s[p[i]]] : p \in Permutations(DOMAIN s)}
\* The non-null values of a key stream, in order.
NonNull(s) == SelectSeq(s, LAMBDA k : k # NullKey)


\* The multiset of the elements of a sequence.
BagOf(s) == [x \in {s[i] : i \in DOMAIN s} |-> Cardinality({i \in DOMAIN s : s[i] = x})]

\* `max_scan_keys is not None and scanned > max_scan_keys`
ScanCappedOffByOne(cap, sc) == cap # None /\ sc > cap[1] + 1
ScanCapped(cap, sc) == cap # None /\ sc > cap[1]

\* A scan loop whose heap takes one key more than sample_size.
ScanKeyOneOver(d, n, h, key) ==
  IF key = NullKey THEN Ok(h)
  ELSE LET score == StableScore(d, key)
       IN IF Len(h) <= n THEN HeapPush(h, <<-score, key>>)
          ELSE IF score < -h[1][1]
               THEN LET popped == HeapPop(h)
                    IN IF popped.ok THEN HeapPush(popped.heap, <<-score, key>>)
                       ELSE Raised
               ELSE Ok(h)

\* A scan loop whose full heap takes the key with the larger score.
ScanKeyKeepsLargest(d, n, h, key) ==
  IF key = NullKey THEN Ok(h)
  ELSE LET score == StableScore(d, key)
       IN IF Len(h) < n THEN HeapPush(h, <<-score, key>>)
          ELSE IF score > -h[1][1]
               THEN LET popped == HeapPop(h)
                    IN IF popped.ok THEN HeapPush(popped.heap, <<-score, key>>)
                       ELSE Raised
               ELSE Ok(h)

\* The body of the scan loop for one key that passed the cap test: a null
\* key is skipped, an under-filled heap takes the key, a full heap takes it
\* in place of its largest score when the key's score is strictly smaller.
ScanKey(d, n, h, key) ==
  IF key = NullKey THEN Ok(h)
  ELSE LET score == StableScore(d, key)
       IN IF Len(h) < n THEN HeapPush(h, <<-score, key>>)
          ELSE IF score < -h[1][1]
               THEN LET popped == HeapPop(h)
                    IN IF popped.ok THEN HeapPush(popped.heap, <<-score, key>>)
                       ELSE Raised
               ELSE Ok(h)

\* list.sort(key=score) is stable: x goes after the elements scoring <= it.
RECURSIVE SortByScore(_, _)
SortByScore(d, s) ==
  IF s = << >> THEN << >>
  ELSE LET init == SortByScore(d, SubSeq(s, 1, Len(s) - 1))
           x == s[Len(s)]
           cnt == Cardinality({i \in DOMAIN init : StableScore(d, init[i]) <= StableScore(d, x)})
       IN SubSeq(init, 1, cnt) \o <<x>> \o SubSeq(init, cnt + 1, Len(init))

\* `selected = [kv for _, kv in heap]; selected.sort(...)`
SelectedOf(d, h) == SortByScore(d, [i \in DOMAIN h |-> h[i][2]])

(***************************************************************************)
(* select_deterministic_keys as a function of the whole stream: what the   *)
(* call returns ("done" with the list) or that it raises.                  *)
(***************************************************************************)
RECURSIVE ScanFrom(_, _, _, _, _, _)
ScanFrom(d, keys, n, cap, sc, h) ==
  IF sc = Len(keys) THEN [status |-> "done", selected |-> SelectedOf(d, h)]
  ELSE IF ScanCapped(cap, sc + 1) THEN [status |-> "done", selected |-> SelectedOf(d, h)]
  ELSE LET r == ScanKey(d, n, h, keys[sc + 1])
       IN IF r.ok THEN ScanFrom(d, keys, n, cap, sc + 1, r.heap)
          ELSE [status |-> "raised", selected |-> << >>]

SelectOutcome(d, keys, n, cap) ==
  IF n <= 0 THEN [status |-> "done", selected |-> << >>]
  ELSE ScanFrom(d, keys, n, cap, 0, << >>)

KeyStreams == UNION {[1..m -> KeyValues] : m \in 0..MaxStream}
ScanCaps == {None} \cup {Some(c) : c \in 1..MaxStream}

SelectIdle ==
  /\ digest = << >>
  /\ iter_keys = << >>
  /\ k_sample_size = 0
  /\ max_scan_keys = None
  /\ heap = << >>
  /\ scanned = 0
  /\ scored = {}
  /\ selected = << >>
  /\ sel_pc = "idle"

\* `if sample_size <= 0: return []`, else enter the loop with an empty heap.
SelectEnter ==
  /\ sel_pc = "call"
  /\ sel_pc' = IF k_sample_size <= 0 THEN "done" ELSE "scan"
  /\ UNCHANGED <<digest, iter_keys, k_sample_size, max_scan_keys, heap, scanned,
                 scored, selected>>
  /\ UNCHANGED <<qvars, mvars, cvars, rvars>>
  /\ UNCHANGED <<dvars, evars>>

\* One turn of `for key_value in source.iter_business_keys(...)`.
IterNext ==
  /\ sel_pc = "scan"
  /\ scanned < Len(iter_keys)
  /\ scanned' = scanned + 1
  /\ LET key == iter_keys[scanned + 1]
     IN \/ /\ ScanCapped(max_scan_keys, scanned + 1)
           /\ sel_pc' = "finish"
           /\ UNCHANGED <<heap, scored>>
        \/ /\ ~ScanCapped(max_scan_keys, scanned + 1)
           /\ key = NullKey
           /\ UNCHANGED <<sel_pc, heap, scored>>
        \/ /\ ~ScanCapped(max_scan_keys, scanned + 1)
           /\ key # NullKey
           /\ ScanKey(digest, k_sample_size, heap, key).ok
           /\ heap' = ScanKey(digest, k_sample_size, heap, key).heap
           /\ scored' = scored \cup {scanned + 1}
           /\ UNCHANGED sel_pc
        \/ /\ ~ScanCapped(max_scan_keys, scanned + 1)
           /\ key # NullKey
           /\ ~ScanKey(digest, k_sample_size, heap, key).ok
           /\ sel_pc' = "raised"
           /\ scored' = scored \cup {scanned + 1}
           /\ UNCHANGED heap
  /\ UNCHANGED <<digest, iter_keys, k_sample_size, max_scan_keys, selected>>
  /\ UNCHANGED <<qvars, mvars, cvars, rvars>>
  /\ UNCHANGED <<dvars, evars>>

\* The iterator is exhausted: leave the loop.
IterExhausted ==
  /\ sel_pc = "scan"
  /\ scanned = Len(iter_keys)
  /\ sel_pc' = "finish"
  /\ UNCHANGED <<digest, iter_keys, k_sample_size, max_scan_keys, heap, scanned,
                 scored, selected>>
  /\ UNCHANGED <<qvars, mvars, cvars, rvars>>
  /\ UNCHANGED <<dvars, evars>>

\* Lines 182-184: the heap's keys, sorted ascending by score.
SelectReturn ==
  /\ sel_pc = "finish"
  /\ selected' = SelectedOf(digest, heap)
  /\ sel_pc' = "done"
  /\ UNCHANGED <<digest, iter_keys, k_sample_size, max_scan_keys, heap, scanned,
                 scored>>
  /\ UNCHANGED <<qvars, mvars, cvars, rvars>>
  /\ UNCHANGED <<dvars, evars>>

InitSelect ==
  /\ digest \in Digests
  /\ iter_keys \in KeyStreams
  /\ k_sample_size \in 0..MaxSampleSize
  /\ max_scan_keys \in ScanCaps
  /\ heap = << >>
  /\ scanned = 0
  /\ scored = {}
  /\ selected = << >>
  /\ sel_pc = "call"

NextSelect == SelectEnter \/ IterNext \/ IterExhausted \/ SelectReturn


(***************************************************************************)
(* The source driver against a throttling store.                           *)
(***************************************************************************)
MaxAttempts == 3
MaxYield == 2


Operations == {"count_documents", "sample_documents", "sample_documents_by_buckets",
               "iter_business_keys", "find_by_business_key"}

\* The x-ms-retry-after-ms header of a 429: absent, a number, or a text
\* float() rejects.
NoHeader == [present |-> FALSE, parses |-> FALSE, ms |-> 0]
HeaderMs(v) == [present |-> TRUE, parses |-> TRUE, ms |-> v]
BadHeader == [present |-> TRUE, parses |-> FALSE, ms |-> 0]
RetryAfterHeaders == {NoHeader, HeaderMs(20), HeaderMs(-5), BadHeader}

\* What a query can raise: a throttling response, another HTTP error of the
\* same exception class, an exception of another class.
Throttled(h) == [cls |-> "CosmosHttpResponseError", status_code |-> 429, header |-> h]
ServerError == [cls |-> "CosmosHttpResponseError", status_code |-> 503, header |-> NoHeader]
NetworkError == [cls |-> "Exception", status_code |-> 0, header |-> NoHeader]
NoExc == [cls |-> "none", status_code |-> 0, header |-> NoHeader]
QueryErrors == {Throttled(h) : h \in RetryAfterHeaders} \cup {ServerError, NetworkError}

\* What a query can return: no rows, or rows.
QueryRows == {<< >>, <<"row">>}
Answer(rows) == [ok |-> TRUE, rows |-> rows, exc |-> NoExc]
Failure(e) == [ok |-> FALSE, rows |-> << >>, exc |-> e]
StoreAnswers == {Answer(r) : r \in QueryRows} \cup {Failure(e) : e \in QueryErrors}

\* The handler's is_429, and a variant that retries every HTTP error.
Is429AnyStatus(e) == e.cls = "CosmosHttpResponseError"
Is429(e) == e.cls = "CosmosHttpResponseError" /\ e.status_code = 429

\* `if not is_429 or attempt >= self._retry_max_attempts: raise`, and a
\* variant that is one attempt late.
GiveUpLate(e, att, max_attempts) == ~Is429(e) \/ att > max_attempts
GiveUp(e, att, max_attempts) == ~Is429(e) \/ att >= max_attempts

RECURSIVE Pow2(_)
Pow2(n) == IF n <= 0 THEN 1 ELSE 2 * Pow2(n - 1)
Max(a, b) == IF a >= b THEN a ELSE b

\* A delay that always backs off exponentially, whatever the server sent.
DelayMsIgnoresHeader(e, att, base_ms) == Max(0, base_ms * Pow2(att - 1))

\* delay_seconds of the handler, in milliseconds.
DelayMs(e, att, base_ms) ==
  IF e.header.present
  THEN (IF e.header.parses THEN Max(0, e.header.ms) ELSE 0)
  ELSE Max(0, base_ms * Pow2(att - 1))

\* The operations whose query goes through _query_items_with_retry: the SQL
\* driver's, except iter_business_keys; none of the Mongo-API driver's.
UsesRetryHelper(a, op) == a = "sql" /\ op # "iter_business_keys"

RetryIdle ==
  /\ api = "none"
  /\ operation = "none"
  /\ retry_max_attempts = 0
  /\ retry_base_delay_ms = 0
  /\ attempt = 0
  /\ exc = NoExc
  /\ history = << >>
  /\ sleeps = << >>
  /\ yielded = 0
  /\ op_result = << >>
  /\ op_error = NoExc
  /\ rt_pc = "idle"

\* The engine calls the operation: it enters the retry helper's loop, or
\* queries the store directly.
OperationCall ==
  /\ rt_pc = "call"
  /\ IF UsesRetryHelper(api, operation)
     THEN rt_pc' = "loop" /\ attempt' = 1
     ELSE rt_pc' = "direct" /\ UNCHANGED attempt
  /\ UNCHANGED <<api, operation, retry_max_attempts, retry_base_delay_ms, exc,
                 history, sleeps, yielded, op_result, op_error>>
  /\ UNCHANGED <<svars, mvars, cvars, rvars>>
  /\ UNCHANGED <<dvars, evars>>

\* One turn of `for attempt in range(1, A + 1)`: the query is issued and
\* its rows returned, or its exception caught; past the range, `return []`.
QueryAttempt ==
  /\ rt_pc = "loop"
  /\ IF attempt <= retry_max_attempts
     THEN \E a \in StoreAnswers :
            /\ history' = Append(history, a)
            /\ IF a.ok
               THEN rt_pc' = "returned" /\ op_result' = a.rows /\ UNCHANGED exc
               ELSE rt_pc' = "except" /\ exc' = a.exc /\ UNCHANGED op_result
     ELSE /\ rt_pc' = "returned"
          /\ op_result' = << >>
          /\ UNCHANGED <<history, exc>>
  /\ UNCHANGED <<api, operation, retry_max_attempts, retry_base_delay_ms, attempt,
                 sleeps, yielded, op_error>>
  /\ UNCHANGED <<svars, mvars, cvars, rvars>>
  /\ UNCHANGED <<dvars, evars>>

\* The except clause: re-raise, or log, sleep and go round again.
HandleException ==
  /\ rt_pc = "except"
  /\ IF GiveUp(exc, attempt, retry_max_attempts)
     THEN /\ rt_pc' = "raised"
          /\ op_error' = exc
          /\ UNCHANGED <<sleeps, attempt>>
     ELSE /\ sleeps' = Append(sleeps, DelayMs(exc, attempt, retry_base_delay_ms))
          /\ attempt' = attempt + 1
          /\ rt_pc' = "loop"
          /\ UNCHANGED op_error
  /\ UNCHANGED <<api, operation, retry_max_attempts, retry_base_delay_ms, exc,
                 history, yielded, op_result>>
  /\ UNCHANGED <<svars, mvars, cvars, rvars>>
  /\ UNCHANGED <<dvars, evars>>

\* A query outside the helper hands out one more value of its stream.
DirectYield ==
  /\ rt_pc = "direct"
  /\ operation = "iter_business_keys"
  /\ yielded < MaxYield
  /\ yielded' = yielded + 1
  /\ UNCHANGED <<api, operation, retry_max_attempts, retry_base_delay_ms, attempt,
                 exc, history, sleeps, op_result, op_error, rt_pc>>
  /\ UNCHANGED <<svars, mvars, cvars, rvars>>
  /\ UNCHANGED <<dvars, evars>>

\* A query outside the helper ends: with its rows, or with the exception the
\* store raised, which propagates.
DirectQuery ==
  /\ rt_pc = "direct"
  /\ \E a \in StoreAnswers :
       /\ history' = Append(history, a)
       /\ IF a.ok
          THEN rt_pc' = "returned" /\ op_result' = a.rows /\ UNCHANGED op_error
          ELSE rt_pc' = "raised" /\ op_error' = a.exc /\ UNCHANGED op_result
  /\ UNCHANGED <<api, operation, retry_max_attempts, retry_base_delay_ms, attempt,
                 exc, sleeps, yielded>>
  /\ UNCHANGED <<svars, mvars, cvars, rvars>>
  /\ UNCHANGED <<dvars, evars>>

InitRetry ==
  /\ api \in {"sql", "mongo"}
  /\ operation \in Operations
  /\ retry_max_attempts \in 1..MaxAttempts
  /\ retry_base_delay_ms \in {0, 500}
  /\ attempt = 0
  /\ exc = NoExc
  /\ history = << >>
  /\ sleeps = << >>
  /\ yielded = 0
  /\ op_result = << >>
  /\ op_error = NoExc
  /\ rt_pc = "call"

NextRetry == OperationCall \/ QueryAttempt \/ HandleException \/ DirectYield \/ DirectQuery

(***************************************************************************)
(* sample_source_documents over one source collection.                     *)
(***************************************************************************)
MaxDocs == 2
BucketModulus == 2
MaxWorkers == 2

Min(a, b) == IF a <= b THEN a ELSE b

\* A source document: its identity, its business-key value (null when the
\* field is null) and the value of its bucket field.
Doc(id, key, bucket) == [id |-> id, key |-> key, bucket |-> bucket]

\* The business-key values of the documents of a source collection: two
\* distinct values and null.
DocKeys == {IntKey(1), IntKey(2), NullKey}

SourceCollections ==
  UNION {{[i \in 1..m |-> Doc(i, kb[i][1], kb[i][2])] :
            kb \in [1..m -> DocKeys \X (0..(BucketModulus - 1))]} : m \in 0..MaxDocs}

\* Python floats are IEEE 754 doubles: a significand of MantissaBits bits,
\* every operation rounded to the nearest double, ties to the even one.  A
\* double is written here as [m |-> the bits of a positive integer, the most
\* significant first, s |-> a scale], and stands for m / 2^s.
MantissaBits == 53

\* 2^n modulo k
RECURSIVE PowMod(_, _)
PowMod(n, k) == IF n = 0 THEN 1 % k ELSE (2 * PowMod(n - 1, k)) % k

IntToBits(n) ==
  LET length == CHOOSE l \in 0..30 : n < Pow2(l) /\ (l = 0 \/ n >= Pow2(l - 1))
  IN [i \in 1..length |-> (n \div Pow2(length - i)) % 2]

BitsToInt(bits) ==
  LET value[k \in 0..Len(bits)] == IF k = 0 THEN 0 ELSE 2 * value[k - 1] + bits[k]
  IN value[Len(bits)]

Increment(bits) ==
  LET length == Len(bits)
      ones == CHOOSE k \in 0..length :
                /\ \A i \in (length - k + 1)..length : bits[i] = 1
                /\ k = length \/ bits[length - k] = 0
  IN IF ones = length THEN <<1>> \o [i \in 1..length |-> 0]
     ELSE [i \in 1..length |-> IF i < length - ones THEN bits[i]
                               ELSE IF i = length - ones THEN 1 ELSE 0]

\* Rounding of a positive integer with a remainder behind it to the nearest:
\* up when the remainder is more than half, or half and the integer is odd.
RoundHalfEven(bits, more_than_half, exactly_half) ==
  IF more_than_half \/ (exactly_half /\ bits[Len(bits)] = 1) THEN Increment(bits)
  ELSE bits

\* n / d as a double, for integers 0 < n <= d that are doubles themselves:
\* the first MantissaBits bits of the quotient from its first one bit on,
\* rounded by what is left of the division.
FloatDiv(n, d) ==
  IF n = d THEN [m |-> <<1>>, s |-> 0]
  ELSE LET zeros == CHOOSE z \in 0..30 :
                      n * Pow2(z + 1) >= d /\ (z = 0 \/ n * Pow2(z) < d)
           bits == [i \in 1..MantissaBits |->
                      IF (n * PowMod(zeros + i, 2 * d)) % (2 * d) >= d THEN 1 ELSE 0]
           rem == (n * PowMod(zeros + MantissaBits, d)) % d
       IN [m |-> RoundHalfEven(bits, 2 * rem > d, 2 * rem = d),
           s |-> zeros + MantissaBits]

\* bits * t for a small integer t > 0, with the carries from the least
\* significant bit up.
MulBits(bits, t) ==
  LET length == Len(bits)
      carry[k \in 0..length] ==
        IF k = 0 THEN 0 ELSE (bits[length - k + 1] * t + carry[k - 1]) \div 2
  IN IntToBits(carry[length])
       \o [i \in 1..length |-> (bits[i] * t + carry[length - i]) % 2]

\* t * x as a double, for an integer t > 0 that is a double itself.
FloatMul(t, x) ==
  LET exact == MulBits(x.m, t)
      extra == Len(exact) - MantissaBits
      kept == SubSeq(exact, 1, MantissaBits)
      dropped == SubSeq(exact, MantissaBits + 1, Len(exact))
      rest_zero == \A i \in 2..Len(dropped) : dropped[i] = 0
  IN IF extra <= 0 THEN [m |-> exact, s |-> x.s]
     ELSE [m |-> RoundHalfEven(kept, dropped[1] = 1 /\ ~rest_zero,
                               dropped[1] = 1 /\ rest_zero),
           s |-> x.s - extra]

\* int(x) of a double x >= 0 with a scale s >= 0: the bits before the point.
FloatToInt(x) ==
  IF Len(x.m) <= x.s THEN 0 ELSE BitsToInt(SubSeq(x.m, 1, Len(x.m) - x.s))

\* total * fraction truncated by int(), fraction being a double.
SizeOfFraction(total, fraction) == FloatToInt(FloatMul(total, fraction))

\* compute_sample_size.  percentage / 100.0 is evaluated once, to a double,
\* and the product of total and that double is truncated.
ComputeSampleSize(total, percentage, count) ==
  IF total <= 0 THEN 0
  ELSE IF percentage # None
  THEN LET size == CHOOSE n \in {SizeOfFraction(total, fraction) :
                                   fraction \in {FloatDiv(percentage[1], 100)}} : TRUE
       IN Max(1, Min(total, size))
  ELSE Max(1, Min(total, count[1]))

SizeConfigs == {[percentage |-> Some(p), count |-> None] : p \in {50, 100}}
               \cup {[percentage |-> None, count |-> Some(c)] : c \in 1..MaxDocs}

\* `concurrency <= 1 or len(items) <= 1`: the calls are made one after the
\* other by the thread that takes the results; otherwise executor.map hands
\* them to a ThreadPoolExecutor(max_workers=concurrency).
Serial(conc, items) == conc <= 1 \/ Len(items) <= 1

\* A pool one worker too large.
PoolHasRoomOneOver(running, max_workers) == Cardinality(running) <= max_workers
\* A worker of the pool is free to take the next queued call.
PoolHasRoom(running, max_workers) == Cardinality(running) < max_workers

PendingTask == [state |-> "pending", result |-> "none"]
Running(ts) == {i \in DOMAIN ts : ts[i].state = "running"}

\* The sampling policies the engine is run under.  Without bucket
\* parameters: each mode that load_config accepts, auto with and without a
\* seed, the key scan capped or not.  With bucket parameters (the bucket
\* sampler then runs first whatever the mode): mode bucket, whose fallback is
\* the deterministic strategy, and mode auto without a seed, whose fallback
\* is the fast one; buckets taken one at a time or, in mode bucket, all at
\* once.  The point lookups are made one after the other
\* (source_lookup_concurrency = 1); SpecPipeline runs them through a pool.
SamplingPolicies ==
  {[mode |-> ms[1], seed |-> ms[2], bucket_modulus |-> None, bucket_count |-> 1,
    deterministic_max_scan_keys |-> c, source_lookup_concurrency |-> 1] :
     ms \in {<<"auto", None>>, <<"auto", Some(Seed)>>, <<"deterministic", Some(Seed)>>,
             <<"fast", Some(Seed)>>},
     c \in {None, Some(1)}}
  \cup
  {[mode |-> ms[1], seed |-> ms[2], bucket_modulus |-> Some(BucketModulus),
    bucket_count |-> ms[3], deterministic_max_scan_keys |-> None,
    source_lookup_concurrency |-> 1] :
     ms \in {<<"bucket", Some(Seed), 1>>, <<"bucket", Some(Seed), BucketModulus>>,
             <<"auto", None, 1>>}}

\* Injective sequences of at most n elements of S.
InjSeqs(S, n) ==
  UNION {{q \in [1..m -> S] : \A i, j \in 1..m : i # j => q[i] # q[j]} : m \in 0..Min(n, Cardinality(S))}

\* source.sample_documents(collection, n): `SELECT TOP n`, `$sample size n`:
\* at most n documents of the collection, in any order.
SampleDocumentsAnswers(coll, n) ==
  {[i \in DOMAIN q |-> coll[q[i]]] : q \in InjSeqs(DOMAIN coll, n)}

\* source.sample_documents_by_buckets(collection, field, values, n): at most
\* n documents whose bucket field is one of the values.
SampleByBucketsAnswers(coll, values, n) ==
  {[i \in DOMAIN q |-> coll[q[i]]] :
     q \in InjSeqs({j \in DOMAIN coll : coll[j].bucket \in values}, n)}

\* source.iter_business_keys: the key of every document, in store order.
BusinessKeysOf(coll) == [i \in DOMAIN coll |-> coll[i].key]

\* source.find_by_business_key: a document with that key, or none.
FindAnswers(coll, key) ==
  IF \E i \in DOMAIN coll : coll[i].key = key
  THEN {Some(coll[i]) : i \in {j \in DOMAIN coll : coll[j].key = key}}
  ELSE {None}

\* `deduped_docs[key_value] = doc` on a dict kept in insertion order.
DictSet(d, key, doc) ==
  IF \E i \in DOMAIN d : d[i].key = key
  THEN [i \in DOMAIN d |-> IF d[i].key = key THEN [key |-> key, doc |-> doc] ELSE d[i]]
  ELSE Append(d, [key |-> key, doc |-> doc])

\* The `for doc in docs` loop of the bucket sampler.
RECURSIVE DictUpdate(_, _)
DictUpdate(d, ds) ==
  IF ds = << >> THEN d
  ELSE DictUpdate(IF Head(ds).key = NullKey THEN d ELSE DictSet(d, Head(ds).key, Head(ds)),
                  Tail(ds))

\* list(deduped_docs.values())[:sample_size]
DictValues(d, n) == [i \in 1..Min(n, Len(d)) |-> d[i].doc]

\* ranked_bucket_ids[start : start + step], as a set; start is 0-based.
BucketGroup(ranked, start, step) ==
  {ranked[i] : i \in {j \in DOMAIN ranked : j > start /\ j <= start + step}}

NoCalls == [op \in {"sample_documents", "sample_documents_by_buckets",
                    "iter_business_keys", "find_by_business_key"} |-> 0]
Called(c, op) == [c EXCEPT ![op] = @ + 1]

SampleIdle ==
  /\ mode = "none"
  /\ seed = None
  /\ bucket_modulus = None
  /\ bucket_count = 0
  /\ det_max_scan_keys = None
  /\ source_lookup_concurrency = 0
  /\ src_docs = << >>
  /\ mode_normalized = "none"
  /\ ranked_bucket_ids = << >>
  /\ bucket_start = 0
  /\ deduped_docs = << >>
  /\ bucket_returned = << >>
  /\ det_keys = << >>
  /\ fetched = 0
  /\ lookups = << >>
  /\ docs = << >>
  /\ driver_calls = NoCalls
  /\ sm_error = FALSE
  /\ sm_pc = "idle"

SampleConf == <<mode, seed, bucket_modulus, bucket_count, det_max_scan_keys,
                source_lookup_concurrency, src_docs,
                source_total, sample_size>>

\* Lines 42-48: nothing to sample, or the bucket sampler first when
\* bucket_field and bucket_modulus are set.  The bucket ids are ranked by
\* the hash of "seed:id": any order.
SampleEnter ==
  /\ sm_pc = "call"
  /\ mode_normalized' = mode
  /\ IF sample_size <= 0
     THEN sm_pc' = "returned" /\ sampled' = << >> /\ UNCHANGED ranked_bucket_ids
     ELSE IF bucket_modulus # None
     THEN /\ \E r \in PermutationsOf([i \in 1..bucket_modulus[1] |-> i - 1]) :
               ranked_bucket_ids' = r
          /\ sm_pc' = "bucket_loop"
          /\ UNCHANGED sampled
     ELSE sm_pc' = "resolve" /\ UNCHANGED <<sampled, ranked_bucket_ids>>
  /\ UNCHANGED <<SampleConf, bucket_start, deduped_docs, bucket_returned, det_keys, fetched, lookups, docs,
                 driver_calls, sm_error>>
  /\ UNCHANGED <<svars, qvars, rvars>>
  /\ UNCHANGED <<dvars, evars>>

BucketLoopRuns ==
  /\ bucket_start < Len(ranked_bucket_ids)
  /\ Len(deduped_docs) < sample_size

\* One turn of the bucket loop: the driver returns documents of the next
\* group of buckets, which are merged into the dict by key.
BucketSample ==
  /\ sm_pc = "bucket_loop"
  /\ BucketLoopRuns
  /\ LET step == Max(1, bucket_count)
         remaining == sample_size - Len(deduped_docs)
     IN \E ds \in SampleByBucketsAnswers(
                    src_docs, BucketGroup(ranked_bucket_ids, bucket_start, step), remaining) :
          /\ deduped_docs' = DictUpdate(deduped_docs, ds)
          /\ bucket_returned' = bucket_returned \o ds
          /\ bucket_start' = bucket_start + step
  /\ driver_calls' = Called(driver_calls, "sample_documents_by_buckets")
  /\ UNCHANGED <<SampleConf, mode_normalized, ranked_bucket_ids, det_keys, fetched, lookups, docs,
                 sm_error, sm_pc, sampled>>
  /\ UNCHANGED <<svars, qvars, rvars>>
  /\ UNCHANGED <<dvars, evars>>

\* The driver raises inside the bucket loop: nothing catches it.
BucketSampleFails ==
  /\ sm_pc = "bucket_loop"
  /\ BucketLoopRuns
  /\ driver_calls' = Called(driver_calls, "sample_documents_by_buckets")
  /\ sm_error' = TRUE
  /\ sm_pc' = "raised"
  /\ UNCHANGED <<SampleConf, mode_normalized, ranked_bucket_ids, bucket_start, deduped_docs, bucket_returned,
                 det_keys, fetched, lookups, docs, sampled>>
  /\ UNCHANGED <<svars, qvars, rvars>>
  /\ UNCHANGED <<dvars, evars>>

\* The bucket loop is over: return what it collected, or go on to another
\* strategy when it collected nothing (mode bucket becomes deterministic).
BucketReturn ==
  /\ sm_pc = "bucket_loop"
  /\ ~BucketLoopRuns
  /\ IF deduped_docs # << >>
     THEN /\ sampled' = DictValues(deduped_docs, sample_size)
          /\ sm_pc' = "returned"
          /\ UNCHANGED mode_normalized
     ELSE /\ mode_normalized' = IF mode_normalized = "bucket" THEN "deterministic"
                                ELSE mode_normalized
          /\ sm_pc' = "resolve"
          /\ UNCHANGED sampled
  /\ UNCHANGED <<SampleConf, ranked_bucket_ids, bucket_start, deduped_docs, bucket_returned, det_keys,
                 fetched, lookups, docs, driver_calls, sm_error>>
  /\ UNCHANGED <<svars, qvars, rvars>>
  /\ UNCHANGED <<dvars, evars>>

\* Lines 70-73: auto is deterministic with a seed and fast without.
ResolveMode ==
  /\ sm_pc = "resolve"
  /\ LET m == IF mode_normalized = "auto"
              THEN (IF seed # None THEN "deterministic" ELSE "fast")
              ELSE mode_normalized
     IN /\ mode_normalized' = m
        /\ sm_pc' = IF m = "fast" THEN "fast" ELSE "deterministic"
  /\ UNCHANGED <<SampleConf, ranked_bucket_ids, bucket_start, deduped_docs, bucket_returned, det_keys,
                 fetched, lookups, docs, driver_calls, sm_error, sampled>>
  /\ UNCHANGED <<svars, qvars, rvars>>
  /\ UNCHANGED <<dvars, evars>>

\* Fast mode: what source.sample_documents returns is returned as it is.
FastSample ==
  /\ sm_pc = "fast"
  /\ \E ds \in SampleDocumentsAnswers(src_docs, sample_size) : sampled' = ds
  /\ driver_calls' = Called(driver_calls, "sample_documents")
  /\ sm_pc' = "returned"
  /\ UNCHANGED <<SampleConf, mode_normalized, ranked_bucket_ids, bucket_start, deduped_docs, bucket_returned,
                 det_keys, fetched, lookups, docs, sm_error>>
  /\ UNCHANGED <<svars, qvars, rvars>>
  /\ UNCHANGED <<dvars, evars>>

FastSampleFailsAndRaises ==
  /\ sm_pc = "fast"
  /\ driver_calls' = Called(driver_calls, "sample_documents")
  /\ sm_pc' = "raised"
  /\ sm_error' = TRUE
  /\ UNCHANGED <<SampleConf, mode_normalized, ranked_bucket_ids, bucket_start, deduped_docs, bucket_returned,
                 det_keys, fetched, lookups, docs, sampled>>
  /\ UNCHANGED <<svars, qvars, rvars>>
  /\ UNCHANGED <<dvars, evars>>

\* Fast mode: source.sample_documents raises; the except clause logs and
\* falls through to the deterministic path.
FastSampleFails ==
  /\ sm_pc = "fast"
  /\ driver_calls' = Called(driver_calls, "sample_documents")
  /\ sm_pc' = "deterministic"
  /\ UNCHANGED <<SampleConf, mode_normalized, ranked_bucket_ids, bucket_start, deduped_docs, bucket_returned,
                 det_keys, fetched, lookups, docs, sm_error, sampled>>
  /\ UNCHANGED <<svars, qvars, rvars>>
  /\ UNCHANGED <<dvars, evars>>

\* select_deterministic_keys over the key stream of the collection, under
\* whatever order the hash gives the keys (the seed may be a fresh random
\* one); the call returns its keys, or raises.  No keys: return [].
SelectKeys ==
  /\ sm_pc = "deterministic"
  /\ driver_calls' = Called(driver_calls, "iter_business_keys")
  /\ \E d \in Digests :
       LET o == SelectOutcome(d, BusinessKeysOf(src_docs), sample_size, det_max_scan_keys)
       IN /\ digest' = d
          /\ IF o.status = "raised"
             THEN sm_pc' = "raised" /\ sm_error' = TRUE /\ UNCHANGED <<det_keys, sampled>>
             ELSE IF o.selected = << >>
             THEN sm_pc' = "returned" /\ sampled' = << >> /\ det_keys' = << >> /\ UNCHANGED sm_error
             ELSE sm_pc' = "fetch" /\ det_keys' = o.selected /\ UNCHANGED <<sm_error, sampled>>
          /\ lookups' = IF o.status = "raised" THEN lookups
                        ELSE [i \in DOMAIN o.selected |-> PendingTask]
  /\ UNCHANGED <<SampleConf, mode_normalized, ranked_bucket_ids, bucket_start, deduped_docs,
                 bucket_returned, fetched, docs>>
  /\ UNCHANGED <<iter_keys, k_sample_size, max_scan_keys, heap, scanned, scored, selected,
                 sel_pc>>
  /\ UNCHANGED <<qvars, rvars>>
  /\ UNCHANGED <<dvars, evars>>

\* The key stream raises part-way: nothing catches it.
SelectKeysFails ==
  /\ sm_pc = "deterministic"
  /\ driver_calls' = Called(driver_calls, "iter_business_keys")
  /\ sm_pc' = "raised"
  /\ sm_error' = TRUE
  /\ UNCHANGED <<SampleConf, mode_normalized, ranked_bucket_ids, bucket_start, deduped_docs, bucket_returned,
                 det_keys, fetched, lookups, docs, sampled>>
  /\ UNCHANGED <<svars, qvars, rvars>>
  /\ UNCHANGED <<dvars, evars>>

\* fetch_one starts for a key.  In the serial loop the thread that takes
\* the results makes the call; under executor.map every call was submitted
\* to the pool, whose workers take them in order, at most max_workers at a
\* time.
LookupStart(i) ==
  /\ sm_pc = "fetch"
  /\ lookups[i].state = "pending"
  /\ \A j \in 1..(i - 1) : lookups[j].state # "pending"
  /\ IF Serial(source_lookup_concurrency, det_keys)
     THEN i = fetched + 1 /\ Running(lookups) = {}
     ELSE PoolHasRoom(Running(lookups), source_lookup_concurrency)
  /\ lookups' = [lookups EXCEPT ![i].state = "running"]
  /\ driver_calls' = Called(driver_calls, "find_by_business_key")
  /\ UNCHANGED <<SampleConf, mode_normalized, ranked_bucket_ids, bucket_start, deduped_docs,
                 bucket_returned, det_keys, fetched, docs, sm_error, sm_pc, sampled>>
  /\ UNCHANGED <<svars, qvars, rvars>>
  /\ UNCHANGED <<dvars, evars>>

\* find_by_business_key returns a document with that key, or None.
LookupFinish(i) ==
  /\ sm_pc \in {"fetch", "fetch_shutdown"}
  /\ lookups[i].state = "running"
  /\ \E a \in FindAnswers(src_docs, det_keys[i]) :
       lookups' = [lookups EXCEPT ![i] = [state |-> "done", result |-> a]]
  /\ UNCHANGED <<SampleConf, mode_normalized, ranked_bucket_ids, bucket_start, deduped_docs,
                 bucket_returned, det_keys, fetched, docs, driver_calls, sm_error, sm_pc, sampled>>
  /\ UNCHANGED <<svars, qvars, rvars>>
  /\ UNCHANGED <<dvars, evars>>

\* find_by_business_key raises.
LookupFails(i) ==
  /\ sm_pc \in {"fetch", "fetch_shutdown"}
  /\ lookups[i].state = "running"
  /\ lookups' = [lookups EXCEPT ![i].state = "failed"]
  /\ UNCHANGED <<SampleConf, mode_normalized, ranked_bucket_ids, bucket_start, deduped_docs,
                 bucket_returned, det_keys, fetched, docs, driver_calls, sm_error, sm_pc, sampled>>
  /\ UNCHANGED <<svars, qvars, rvars>>
  /\ UNCHANGED <<dvars, evars>>

\* The next result of _fetch_source_documents_by_keys, in key order: the
\* document is appended unless the lookup found none.
FetchOne ==
  /\ sm_pc = "fetch"
  /\ fetched < Len(det_keys)
  /\ lookups[fetched + 1].state = "done"
  /\ docs' = IF lookups[fetched + 1].result # None
             THEN Append(docs, lookups[fetched + 1].result[1]) ELSE docs
  /\ fetched' = fetched + 1
  /\ UNCHANGED <<SampleConf, mode_normalized, ranked_bucket_ids, bucket_start, deduped_docs,
                 bucket_returned, det_keys, lookups, driver_calls, sm_error, sm_pc, sampled>>
  /\ UNCHANGED <<svars, qvars, rvars>>
  /\ UNCHANGED <<dvars, evars>>

\* The next result is an exception: nothing catches it.  The calls that did
\* not start are cancelled and the pool waits for those that are running.
FetchFails ==
  /\ sm_pc = "fetch"
  /\ fetched < Len(det_keys)
  /\ lookups[fetched + 1].state = "failed"
  /\ lookups' = [i \in DOMAIN lookups |->
                   IF lookups[i].state = "pending"
                   THEN [lookups[i] EXCEPT !.state = "cancelled"] ELSE lookups[i]]
  /\ sm_pc' = "fetch_shutdown"
  /\ UNCHANGED <<SampleConf, mode_normalized, ranked_bucket_ids, bucket_start, deduped_docs,
                 bucket_returned, det_keys, fetched, docs, driver_calls, sm_error, sampled>>
  /\ UNCHANGED <<svars, qvars, rvars>>
  /\ UNCHANGED <<dvars, evars>>

\* No lookup is running any more: the exception leaves
\* sample_source_documents.
FetchShutdownDone ==
  /\ sm_pc = "fetch_shutdown"
  /\ Running(lookups) = {}
  /\ sm_pc' = "raised"
  /\ sm_error' = TRUE
  /\ UNCHANGED <<SampleConf, mode_normalized, ranked_bucket_ids, bucket_start, deduped_docs,
                 bucket_returned, det_keys, fetched, lookups, docs, driver_calls, sampled>>
  /\ UNCHANGED <<svars, qvars, rvars>>
  /\ UNCHANGED <<dvars, evars>>

\* Every key was looked up: return the documents found.
FetchReturn ==
  /\ sm_pc = "fetch"
  /\ fetched = Len(det_keys)
  /\ sampled' = docs
  /\ sm_pc' = "returned"
  /\ UNCHANGED <<SampleConf, mode_normalized, ranked_bucket_ids, bucket_start, deduped_docs, bucket_returned,
                 det_keys, fetched, lookups, docs, driver_calls, sm_error>>
  /\ UNCHANGED <<svars, qvars, rvars>>
  /\ UNCHANGED <<dvars, evars>>

NextSample ==
  \/ SampleEnter \/ BucketSample \/ BucketSampleFails \/ BucketReturn \/ ResolveMode
  \/ FastSample \/ FastSampleFails \/ SelectKeys \/ SelectKeysFails
  \/ (\E i \in DOMAIN lookups : LookupStart(i) \/ LookupFinish(i) \/ LookupFails(i))
  \/ FetchOne \/ FetchFails \/ FetchShutdownDone \/ FetchReturn

(***************************************************************************)
(* run_compare.                                                            *)
(***************************************************************************)
MaxTotal == 2

\* Collection names, as tuples of characters.
NameA == <<"a">>
NameA2 == <<"a", " ">>
NameB == <<"b">>
Names == <<NameA, NameA2, NameB>>
NameSet == {Names[i] : i \in DOMAIN Names}

\* _FILENAME_SAFE_RE: the characters [A-Za-z0-9._-] of the model's alphabet.
SafeChars == {"a", "b", ".", "_", "-"}
StripChars == {".", "_", "-"}

\* _FILENAME_SAFE_RE.sub("_", collection): each run of other characters
\* becomes one "_".
RECURSIVE SubUnsafe(_, _)
SubUnsafe(name, in_run) ==
  IF name = << >> THEN << >>
  ELSE IF Head(name) \in SafeChars THEN <<Head(name)>> \o SubUnsafe(Tail(name), FALSE)
  ELSE (IF in_run THEN << >> ELSE <<"_">>) \o SubUnsafe(Tail(name), TRUE)

\* str.strip("._-")
RECURSIVE StripLeft(_)
StripLeft(t) == IF t # << >> /\ Head(t) \in StripChars THEN StripLeft(Tail(t)) ELSE t
RECURSIVE StripRight(_)
StripRight(t) ==
  IF t # << >> /\ t[Len(t)] \in StripChars THEN StripRight(SubSeq(t, 1, Len(t) - 1)) ELSE t

\* _collection_log_path: the file name without its directory and suffix.
CollectionLogPath(name) ==
  LET safe == StripRight(StripLeft(SubUnsafe(name, FALSE)))
  IN IF safe = << >> THEN <<"c", "o", "l", "l", "e", "c", "t", "i", "o", "n">> ELSE safe

LogPaths == {CollectionLogPath(n) : n \in NameSet}

\* clear_collection_mismatch_log: the file is removed.
ClearNothing(j, name) == j
ClearCollectionMismatchLog(j, name) == [j EXCEPT ![CollectionLogPath(name)] = << >>]

\* write_collection_mismatch_log: one record is appended to the file.
WriteCollectionMismatchLog(j, name, ts, key_value) ==
  [j EXCEPT ![CollectionLogPath(name)] =
     Append(@, [ts |-> ts, business_key_value |-> key_value])]

\* CollectionConfig
ConfigOn == [enabled |-> TRUE, business_key |-> Some("id")]
ConfigOff == [enabled |-> FALSE, business_key |-> None]
ConfigNoKey == [enabled |-> TRUE, business_key |-> None]

\* cfg.collections.get(collection_name, cfg.collection_defaults)
CollectionConfigOf(cfgs, defaults, name) ==
  IF name \in DOMAIN cfgs THEN cfgs[name] ELSE defaults

\* list(cfg.collections.keys())
RECURSIVE KeysIn(_, _)
KeysIn(cfgs, ns) ==
  IF ns = << >> THEN << >>
  ELSE (IF Head(ns) \in DOMAIN cfgs THEN <<Head(ns)>> ELSE << >>) \o KeysIn(cfgs, Tail(ns))

\* CollectionStats(...) as created for a collection.
NewStats(name, s_total, t_total, n_sampled) ==
  [collection |-> name, source_total |-> s_total, target_total |-> t_total,
   sampled |-> n_sampled, found_in_both |-> 0, missing_in_target |-> 0,
   source_missing_business_key |-> 0, matched |-> 0, mismatched |-> 0]

\* Lines 87-93: a sampled document without a key value is counted and
\* dropped, the others become candidates.
RECURSIVE BuildCandidates(_, _)
BuildCandidates(st, ds) ==
  IF ds = << >> THEN [stats |-> st, candidates |-> << >>]
  ELSE IF Head(ds).key = NullKey
  THEN BuildCandidates([st EXCEPT !.source_missing_business_key = @ + 1], Tail(ds))
  ELSE LET rest == BuildCandidates(st, Tail(ds))
       IN [stats |-> rest.stats,
           candidates |-> <<[key_value |-> Head(ds).key, src_doc |-> Head(ds)]>> \o rest.candidates]

\* Lines 130-148, the counters: what one drained result adds to the stats.
CountResultNoFound(st, kind) ==
  IF kind = "missing" THEN [st EXCEPT !.missing_in_target = @ + 1]
  ELSE IF kind = "mismatch" THEN [st EXCEPT !.mismatched = @ + 1]
  ELSE [st EXCEPT !.found_in_both = @ + 1, !.matched = @ + 1]
CountResult(st, kind) ==
  IF kind = "missing" THEN [st EXCEPT !.missing_in_target = @ + 1]
  ELSE IF kind = "mismatch" THEN [st EXCEPT !.found_in_both = @ + 1, !.mismatched = @ + 1]
  ELSE [st EXCEPT !.found_in_both = @ + 1, !.matched = @ + 1]

CurrentCollection == collections[ci]

\* Documents the sampling engine can return in the run: one per key value.
RunDocs == {Doc(1, IntKey(1), 0), Doc(2, IntKey(2), 0), Doc(3, NullKey, 0)}
\* The lists sample_source_documents can return: at most n of them, none
\* twice.
RunSamples(n) == {[i \in DOMAIN q |-> q[i]] : q \in InjSeqs(RunDocs, n)}
StaleRecord == [ts |-> 0, business_key_value |-> IntKey(1)]

RunConf == <<single_collection, all_collections, cfg_collections, collection_defaults,
             sampling, compare_concurrency>>

RunIdle ==
  /\ single_collection = None
  /\ all_collections = FALSE
  /\ cfg_collections = << >>
  /\ collection_defaults = ConfigOff
  /\ sampling = [percentage |-> None, count |-> None]
  /\ compare_concurrency = 0
  /\ source = "none"
  /\ target = "none"
  /\ collections = << >>
  /\ ci = 0
  /\ journal = << >>
  /\ clock = 0
  /\ target_total = 0
  /\ stats = NewStats(<< >>, 0, 0, 0)
  /\ candidates = << >>
  /\ tasks = << >>
  /\ processed = 0
  /\ error = "none"
  /\ pc = "idle"

CommonIdle ==
  /\ source_total = 0
  /\ sample_size = 0
  /\ sampled = << >>

Others == <<svars, qvars, mvars>>
PerCollection == <<source_total, sample_size, sampled, target_total, stats, candidates,
                   tasks, processed>>

\* _build_source_client(cfg, logger) returns the source driver.
BuildSource ==
  /\ pc = "build_source"
  /\ source' = "open"
  /\ pc' = "build_target"
  /\ UNCHANGED <<RunConf, target, collections, ci, journal, clock, error, PerCollection, Others>>
  /\ UNCHANGED <<dvars, evars>>

\* The source driver's constructor raises: run_compare raises before it
\* holds any handle.
BuildSourceFails ==
  /\ pc = "build_source"
  /\ error' = "source_init"
  /\ pc' = "raised"
  /\ UNCHANGED <<RunConf, source, target, collections, ci, journal, clock, PerCollection, Others>>
  /\ UNCHANGED <<dvars, evars>>

\* MongoTargetClient(...) returns the target driver; the try block begins.
BuildTarget ==
  /\ pc = "build_target"
  /\ target' = "open"
  /\ pc' = "select"
  /\ UNCHANGED <<RunConf, source, collections, ci, journal, clock, error, PerCollection, Others>>
  /\ UNCHANGED <<dvars, evars>>

\* MongoTargetClient(...) raises (its ping timed out, its authentication
\* failed): line 26 is outside the try block, so the exception leaves
\* run_compare at once.
BuildTargetFails ==
  /\ pc = "build_target"
  /\ error' = "target_init"
  /\ pc' = "raised"
  /\ UNCHANGED <<RunConf, source, target, collections, ci, journal, clock, PerCollection, Others>>
  /\ UNCHANGED <<dvars, evars>>

\* What source.list_collections() can return: sorted names.
Listings == {<<NameA, NameB>>, <<NameA, NameA2>>, <<NameB>>}

\* Lines 29-34: the list the loop runs over.
SelectCollections ==
  /\ pc = "select"
  /\ IF single_collection # None THEN collections' = <<single_collection[1]>>
     ELSE IF all_collections THEN \E l \in Listings : collections' = l
     ELSE collections' = KeysIn(cfg_collections, Names)
  /\ ci' = 0
  /\ pc' = "loop"
  /\ UNCHANGED <<RunConf, source, target, journal, clock, error, PerCollection, Others>>
  /\ UNCHANGED <<dvars, evars>>

\* source.list_collections() raises.
ListCollectionsFails ==
  /\ pc = "select"
  /\ single_collection = None
  /\ all_collections
  /\ error' = "list_collections"
  /\ pc' = "finally"
  /\ UNCHANGED <<RunConf, source, target, collections, ci, journal, clock, PerCollection, Others>>
  /\ UNCHANGED <<dvars, evars>>

\* Lines 36-49, one turn of the loop over the collections: a disabled
\* collection is skipped, one without a business key ends the run, any
\* other has its mismatch file cleared and goes on to the counts.
NextCollection ==
  /\ pc = "loop"
  /\ ci < Len(collections)
  /\ ci' = ci + 1
  /\ LET name == collections[ci + 1]
         c_cfg == CollectionConfigOf(cfg_collections, collection_defaults, name)
     IN \/ /\ ~c_cfg.enabled
           /\ UNCHANGED <<pc, error, journal>>
        \/ /\ c_cfg.enabled
           /\ c_cfg.business_key = None
           /\ error' = "no_business_key"
           /\ pc' = "finally"
           /\ UNCHANGED journal
        \/ /\ c_cfg.enabled
           /\ c_cfg.business_key # None
           /\ journal' = ClearCollectionMismatchLog(journal, name)
           /\ pc' = "count"
           /\ UNCHANGED error
  /\ UNCHANGED <<RunConf, source, target, collections, clock, PerCollection, Others>>
  /\ UNCHANGED <<dvars, evars>>

\* The loop is over: the finally clause runs.
LoopDone ==
  /\ pc = "loop"
  /\ ci = Len(collections)
  /\ pc' = "finally"
  /\ UNCHANGED <<RunConf, source, target, collections, ci, journal, clock, error,
                 PerCollection, Others>>
  /\ UNCHANGED <<dvars, evars>>

\* Lines 51-57: both counts and the sample size.
CountDocuments ==
  /\ pc = "count"
  /\ \E s_total \in 0..MaxTotal, t_total \in 0..1 :
       /\ source_total' = s_total
       /\ target_total' = t_total
       /\ sample_size' = ComputeSampleSize(s_total, sampling.percentage, sampling.count)
  /\ pc' = "sample"
  /\ UNCHANGED <<RunConf, source, target, collections, ci, journal, clock, error, sampled,
                 stats, candidates, tasks, processed, Others>>
  /\ UNCHANGED <<dvars, evars>>

\* A count raises.
CountDocumentsFails ==
  /\ pc = "count"
  /\ error' = "count_documents"
  /\ pc' = "finally"
  /\ UNCHANGED <<RunConf, source, target, collections, ci, journal, clock, PerCollection, Others>>
  /\ UNCHANGED <<dvars, evars>>

\* Lines 61-113: sample_source_documents returns at most sample_size
\* documents (its steps are those of NextSample); the stats are created,
\* the candidates built and the result iterator set up, every compare_one
\* call still to be made.
SampleSourceDocuments ==
  /\ pc = "sample"
  /\ \E ds \in RunSamples(sample_size) :
       LET built == BuildCandidates(
                      NewStats(CurrentCollection, source_total, target_total, Len(ds)), ds)
       IN /\ sampled' = ds
          /\ stats' = built.stats
          /\ candidates' = built.candidates
          /\ tasks' = [i \in DOMAIN built.candidates |-> PendingTask]
  /\ processed' = 0
  /\ pc' = "compare"
  /\ UNCHANGED <<RunConf, source, target, collections, ci, journal, clock, error,
                 source_total, sample_size, target_total, Others>>
  /\ UNCHANGED <<dvars, evars>>

\* The same lines when the steps of sample_source_documents are taken one by
\* one: the call has returned `sampled`.
SampleReturned ==
  /\ pc = "sample"
  /\ sm_pc = "returned"
  /\ LET built == BuildCandidates(
                     NewStats(CurrentCollection, source_total, target_total, Len(sampled)),
                     sampled)
     IN /\ stats' = built.stats
        /\ candidates' = built.candidates
        /\ tasks' = [i \in DOMAIN built.candidates |-> PendingTask]
  /\ processed' = 0
  /\ pc' = "compare"
  /\ UNCHANGED <<RunConf, source, target, collections, ci, journal, clock, error,
                 source_total, sample_size, sampled, target_total, Others>>
  /\ UNCHANGED <<dvars, evars>>

\* The call has raised: the exception goes on to the finally clause.
SampleRaised ==
  /\ pc = "sample"
  /\ sm_pc = "raised"
  /\ error' = "sampling"
  /\ pc' = "finally"
  /\ UNCHANGED <<RunConf, source, target, collections, ci, journal, clock, PerCollection, Others>>
  /\ UNCHANGED <<dvars, evars>>

\* sample_source_documents raises.
SampleSourceDocumentsFails ==
  /\ pc = "sample"
  /\ error' = "sampling"
  /\ pc' = "finally"
  /\ UNCHANGED <<RunConf, source, target, collections, ci, journal, clock, PerCollection, Others>>
  /\ UNCHANGED <<dvars, evars>>

\* compare_one starts for a candidate.  Under map the draining loop makes
\* the call itself when it asks for the next result; under _parallel_map
\* every call was submitted to the pool, whose workers take them in order,
\* at most max_workers at a time.
TaskStart(i) ==
  /\ pc = "compare"
  /\ tasks[i].state = "pending"
  /\ \A j \in 1..(i - 1) : tasks[j].state # "pending"
  /\ IF Serial(compare_concurrency, candidates)
     THEN i = processed + 1 /\ Running(tasks) = {}
     ELSE PoolHasRoom(Running(tasks), compare_concurrency)
  /\ tasks' = [tasks EXCEPT ![i].state = "running"]
  /\ UNCHANGED <<RunConf, source, target, collections, ci, journal, clock, error, pc,
                 source_total, sample_size, sampled, target_total, stats, candidates,
                 processed, Others>>
  /\ UNCHANGED <<dvars, evars>>

\* compare_one returns: the target has no document for the key, or has one
\* that compare_documents finds equal, or one it finds different.
TaskFinish(i) ==
  /\ pc \in {"compare", "shutdown"}
  /\ tasks[i].state = "running"
  /\ \E kind \in {"missing", "match", "mismatch"} :
       tasks' = [tasks EXCEPT ![i] = [state |-> "done", result |-> kind]]
  /\ UNCHANGED <<RunConf, source, target, collections, ci, journal, clock, error, pc,
                 source_total, sample_size, sampled, target_total, stats, candidates,
                 processed, Others>>
  /\ UNCHANGED <<dvars, evars>>

\* compare_one raises (the target lookup failed).
TaskFails(i) ==
  /\ pc \in {"compare", "shutdown"}
  /\ tasks[i].state = "running"
  /\ tasks' = [tasks EXCEPT ![i].state = "failed"]
  /\ UNCHANGED <<RunConf, source, target, collections, ci, journal, clock, error, pc,
                 source_total, sample_size, sampled, target_total, stats, candidates,
                 processed, Others>>
  /\ UNCHANGED <<dvars, evars>>

\* One turn of the draining loop: the next result, in the order of the
\* candidates, is counted, and journaled when it is a mismatch.
DrainResult ==
  /\ pc = "compare"
  /\ processed < Len(tasks)
  /\ tasks[processed + 1].state = "done"
  /\ processed' = processed + 1
  /\ stats' = CountResult(stats, tasks[processed + 1].result)
  /\ IF tasks[processed + 1].result = "mismatch"
     THEN journal' = WriteCollectionMismatchLog(
                       journal, CurrentCollection, clock, candidates[processed + 1].key_value)
     ELSE UNCHANGED journal
  /\ UNCHANGED <<RunConf, source, target, collections, ci, clock, error, pc, source_total,
                 sample_size, sampled, target_total, candidates, tasks, Others>>
  /\ UNCHANGED <<dvars, evars>>

\* The next result is an exception: it is raised in the draining loop.  The
\* iterator cancels the calls that did not start, and the pool is shut down
\* waiting for those that are running.
DrainFailure ==
  /\ pc = "compare"
  /\ processed < Len(tasks)
  /\ tasks[processed + 1].state = "failed"
  /\ tasks' = [i \in DOMAIN tasks |->
                 IF tasks[i].state = "pending" THEN [tasks[i] EXCEPT !.state = "cancelled"]
                 ELSE tasks[i]]
  /\ error' = "compare_one"
  /\ pc' = "shutdown"
  /\ UNCHANGED <<RunConf, source, target, collections, ci, journal, clock, source_total,
                 sample_size, sampled, target_total, stats, candidates, processed, Others>>
  /\ UNCHANGED <<dvars, evars>>

\* The pool has no running call left: the exception goes on to the finally
\* clause.
ShutdownDone ==
  /\ pc = "shutdown"
  /\ Running(tasks) = {}
  /\ pc' = "finally"
  /\ UNCHANGED <<RunConf, source, target, collections, ci, journal, clock, error,
                 PerCollection, Others>>
  /\ UNCHANGED <<dvars, evars>>

\* Every result was drained: lines 150-160 log the stats line and timings.
CollectionDoneEarly ==
  /\ pc = "compare"
  /\ processed <= Len(tasks)
  /\ pc' = "summary"
  /\ UNCHANGED <<RunConf, source, target, collections, ci, journal, clock, error,
                 PerCollection, Others>>
  /\ UNCHANGED <<dvars, evars>>

CollectionDone ==
  /\ pc = "compare"
  /\ processed = Len(tasks)
  /\ pc' = "summary"
  /\ UNCHANGED <<RunConf, source, target, collections, ci, journal, clock, error,
                 PerCollection, Others>>
  /\ UNCHANGED <<dvars, evars>>

\* On to the next collection.
Summary ==
  /\ pc = "summary"
  /\ pc' = "loop"
  /\ UNCHANGED <<RunConf, source, target, collections, ci, journal, clock, error,
                 PerCollection, Others>>
  /\ UNCHANGED <<dvars, evars>>

\* finally: source.close(), whose exception is suppressed.
CloseSource ==
  /\ pc = "finally"
  /\ source' \in {"closed", "close_failed"}
  /\ pc' = "finally_target"
  /\ UNCHANGED <<RunConf, target, collections, ci, journal, clock, error, PerCollection, Others>>
  /\ UNCHANGED <<dvars, evars>>

\* finally: target.close(), whose exception is suppressed; run_compare
\* returns, or re-raises the exception that brought it here.
CloseTarget ==
  /\ pc = "finally_target"
  /\ target' \in {"closed", "close_failed"}
  /\ pc' = IF error = "none" THEN "returned" ELSE "raised"
  /\ UNCHANGED <<RunConf, source, collections, ci, journal, clock, error, PerCollection, Others>>
  /\ UNCHANGED <<dvars, evars>>

ConfigMaps == {(NameA :> ConfigOn) @@ (NameB :> ConfigOn),
               (NameA :> ConfigOn) @@ (NameA2 :> ConfigOn),
               (NameA :> ConfigOn) @@ (NameB :> ConfigOff)}

InitRun ==
  /\ \E m \in {<<Some(NameA), FALSE>>, <<Some(NameB), FALSE>>, <<None, TRUE>>, <<None, FALSE>>} :
       single_collection = m[1] /\ all_collections = m[2]
  /\ cfg_collections \in ConfigMaps
  /\ collection_defaults \in {ConfigOn, ConfigNoKey}
  /\ sampling \in {[percentage |-> None, count |-> Some(MaxTotal)],
                   [percentage |-> Some(50), count |-> None]}
  /\ compare_concurrency \in 1..MaxWorkers
  /\ source = "none"
  /\ target = "none"
  /\ collections = << >>
  /\ ci = 0
  /\ journal \in {[p \in LogPaths |-> << >>], [p \in LogPaths |-> <<StaleRecord>>]}
  /\ clock = 1
  /\ target_total = 0
  /\ stats = NewStats(<< >>, 0, 0, 0)
  /\ candidates = << >>
  /\ tasks = << >>
  /\ processed = 0
  /\ error = "none"
  /\ pc = "build_source"
  /\ CommonIdle

Next ==
  \/ BuildSource \/ BuildSourceFails \/ BuildTarget \/ BuildTargetFails
  \/ SelectCollections \/ ListCollectionsFails \/ NextCollection \/ LoopDone
  \/ CountDocuments \/ CountDocumentsFails
  \/ SampleSourceDocuments \/ SampleSourceDocumentsFails
  \/ \E i \in DOMAIN tasks : TaskStart(i) \/ TaskFinish(i) \/ TaskFails(i)
  \/ DrainResult \/ DrainFailure \/ ShutdownDone \/ CollectionDone \/ Summary
  \/ CloseSource \/ CloseTarget

(***************************************************************************)
(* compare_documents.  A value is [type |-> t, v |-> x, elems |-> s], t    *)
(* the name of its Python type: a scalar has its text in v, a list its     *)
(* elements in elems, a dict its items in elems, each item holding the key *)
(* in v and the value as its one element.  The items are kept in sorted    *)
(* key order: compare.py walks a dict only through sorted(keys) and        *)
(* json.dumps(sort_keys=True), and dict equality ignores insertion order.  *)
(* A path and an entry of exclude_fields are texts, kept as the sequence   *)
(* of their pieces: key names, ".", "[", an index, "]".  Key names hold no *)
(* "." here.                                                               *)
(***************************************************************************)
MaxListLen == 2

Scalar(t, text) == [type |-> t, v |-> text, elems |-> << >>]
IntVal(n) == Scalar("int", IntText(n))
FloatVal(n) == Scalar("float", IntText(n) \o ".0")
NaN == Scalar("float", "nan")
StrVal(s) == Scalar("str", s)
DateTime(iso) == Scalar("datetime", iso)
Null == Scalar("NoneType", "None")
Item(k, value) == [type |-> "item", v |-> k, elems |-> <<value>>]
Dict(items) == [type |-> "dict", v |-> "", elems |-> items]
List(s) == [type |-> "list", v |-> "", elems |-> s]

\* a.keys(), `key in a`, a[key]
Keys(d) == {d.elems[i].v : i \in DOMAIN d.elems}
Get(d, k) == d.elems[CHOOSE i \in DOMAIN d.elems : d.elems[i].v = k].elems[1]

\* datetime(2020, 1, 1).isoformat()
IsoText == "2020-01-01T00:00:00"

\* The key names in use, as sorted() orders them.
KeyOrder == <<"id", "v", "x">>
SortedKeys(S) == SelectSeq(KeyOrder, LAMBDA k : k \in S)

\* The items of a dict with at most the keys k1 < k2, each with a value of
\* its set or absent.
ItemsOver(k1, V1, k2, V2) ==
  {(IF o1 = None THEN << >> ELSE <<Item(k1, o1[1])>>)
     \o (IF o2 = None THEN << >> ELSE <<Item(k2, o2[1])>>) :
   o1 \in {None} \cup {Some(x) : x \in V1}, o2 \in {None} \cup {Some(x) : x \in V2}}

\* The documents compared.  Scalars of every kind, among them a string and
\* a datetime with the same ISO text and the float nan; inner documents
\* with an id and a v; lists of scalars and lists of one inner document.
\* A document has an id, an x, both or neither.
Leaves == {IntVal(1), IntVal(2), FloatVal(1), NaN, StrVal(IsoText), DateTime(IsoText), Null}
InnerDicts ==
  {Dict(items) : items \in ItemsOver("id", {IntVal(1), IntVal(2)}, "v", {IntVal(1), IntVal(2)})}
ListElems == {IntVal(1), StrVal(IsoText), DateTime(IsoText)}
Lists == {List(s) : s \in UNION {[1..n -> ListElems] : n \in 0..MaxListLen}}
           \cup {List(<<d>>) : d \in InnerDicts}
FieldValues == Leaves \cup InnerDicts \cup Lists
Documents ==
  {Dict(items) : items \in ItemsOver("id", {IntVal(1), IntVal(2)}, "x", FieldValues)}

ExcludeFieldSets == {{}, {<<"id">>}, {<<"x", ".", "id">>}}
InsensitivePathSets == {{}, {<<"x">>}}

\* _build_exclude_sets: `"." in f` sends the entry to exclude_paths.
HasDot(f) == \E i \in DOMAIN f : f[i] = "."
ExcludeAnywhere(fields) == {f \in fields : ~HasDot(f)}
ExcludePaths(fields) == {f \in fields : HasDot(f)}

\* f"{path}.{k}" if path else k
NextPath(path, k) == IF path # << >> THEN path \o <<".", k>> ELSE <<k>>
\* f"{path}[{i}]"
IndexPath(path, i) == path \o <<"[", IntText(i), "]">>
\* path or "$"
PathOrRoot(path) == IF path # << >> THEN path ELSE <<"$">>

\* `k in exclude_anywhere or next_path in exclude_paths`
ExcludedByNameOnly(k, next_path, exclude_anywhere, exclude_paths) ==
  <<k>> \in exclude_anywhere

Excluded(k, next_path, exclude_anywhere, exclude_paths) ==
  <<k>> \in exclude_anywhere \/ next_path \in exclude_paths

\* _prune: a dict loses its excluded keys; the elements of a list are
\* pruned under the path of the list.
RECURSIVE Prune(_, _, _, _)
Prune(value, exclude_anywhere, exclude_paths, path) ==
  IF value.type = "dict"
  THEN LET kept == SelectSeq(value.elems,
                     LAMBDA it : ~Excluded(it.v, NextPath(path, it.v),
                                           exclude_anywhere, exclude_paths))
       IN Dict([i \in DOMAIN kept |->
                  Item(kept[i].v, Prune(kept[i].elems[1], exclude_anywhere, exclude_paths,
                                        NextPath(path, kept[i].v)))])
  ELSE IF value.type = "list"
  THEN List([i \in DOMAIN value.elems |->
               Prune(value.elems[i], exclude_anywhere, exclude_paths, path)])
  ELSE value

\* _type_name
TypeName(value) == IF value = Null THEN "null" ELSE value.type

\* `type(a) is type(b)`
SameTypeUpToNumbers(a, b) ==
  a.type = b.type \/ {a.type, b.type} = {"int", "float"}

SameType(a, b) == a.type = b.type

\* _values_equal: Python's == on two scalars of one type; nan == nan is
\* False.
ValuesEqual(a, b) == a = b /\ a # NaN

NewDiff(path, kind, s, t) == [path |-> path, kind |-> kind, source |-> s, target |-> t]

\* json.dumps(value, sort_keys=True, default=_json_default): a str in
\* quotes, a datetime through default (its isoformat(), a str, then in
\* quotes), a float by its repr with nan as NaN, None as null.
RECURSIVE Canonicalize(_)
RECURSIVE CanonicalizeElems(_)
Canonicalize(value) ==
  CASE value.type = "int" -> value.v
    [] value.type = "float" -> IF value = NaN THEN "NaN" ELSE value.v
    [] value.type = "str" -> "\"" \o value.v \o "\""
    [] value.type = "datetime" -> "\"" \o value.v \o "\""
    [] value.type = "NoneType" -> "null"
    [] value.type = "list" -> "[" \o CanonicalizeElems(value.elems) \o "]"
    [] value.type = "dict" -> "{" \o CanonicalizeElems(value.elems) \o "}"
    [] value.type = "item" -> "\"" \o value.v \o "\": " \o Canonicalize(value.elems[1])
CanonicalizeElems(s) ==
  IF s = << >> THEN ""
  ELSE Canonicalize(Head(s)) \o (IF Tail(s) = << >> THEN "" ELSE ", ")
         \o CanonicalizeElems(Tail(s))

\* Counter(_canonicalize(v) for v in a)
CounterOf(s) ==
  [t \in {Canonicalize(s[i]) : i \in DOMAIN s} |->
     Cardinality({i \in DOMAIN s : Canonicalize(s[i]) = t})]

\* dict(ca)
CounterDict(c) ==
  LET RECURSIVE ItemsOf(_)
      ItemsOf(ts) ==
        IF ts = {} THEN << >>
        ELSE LET t == CHOOSE x \in ts : TRUE
             IN <<Item(t, IntVal(c[t]))>> \o ItemsOf(ts \ {t})
  IN Dict(ItemsOf(DOMAIN c))

\* _diff_list_insensitive
DiffListInsensitive(a, b, path) ==
  IF CounterOf(a) = CounterOf(b) THEN << >>
  ELSE <<NewDiff(PathOrRoot(path), "value_mismatch",
                 CounterDict(CounterOf(a)), CounterDict(CounterOf(b)))>>

\* _diff, and _diff_list_sensitive.
RECURSIVE DiffOf(_, _, _, _)
RECURSIVE DiffKeys(_, _, _, _, _)
RECURSIVE DiffElems(_, _, _, _, _)
DiffListSensitive(a, b, path, paths) ==
  (IF Len(a) # Len(b)
   THEN <<NewDiff(PathOrRoot(path), "value_mismatch",
                  StrVal("len=" \o IntText(Len(a))), StrVal("len=" \o IntText(Len(b))))>>
   ELSE << >>)
  \o DiffElems(a, b, 0, path, paths)
  \o (IF Len(a) > Len(b)
      THEN [j \in 1..(Len(a) - Len(b)) |->
              NewDiff(IndexPath(path, Len(b) + j - 1), "missing_in_target",
                      a[Len(b) + j], Null)]
      ELSE [j \in 1..(Len(b) - Len(a)) |->
              NewDiff(IndexPath(path, Len(a) + j - 1), "missing_in_source",
                      Null, b[Len(a) + j])])

\* `for i in range(min(len(a), len(b)))`, from index i on.
DiffElems(a, b, i, path, paths) ==
  IF i >= Min(Len(a), Len(b)) THEN << >>
  ELSE DiffOf(a[i + 1], b[i + 1], IndexPath(path, i), paths)
         \o DiffElems(a, b, i + 1, path, paths)

\* `for key in sorted(keys)`, over the keys left.
DiffKeys(a, b, keys, path, paths) ==
  IF keys = << >> THEN << >>
  ELSE LET key == Head(keys)
           next_path == NextPath(path, key)
       IN (IF key \notin Keys(a)
           THEN <<NewDiff(next_path, "missing_in_source", Null, Get(b, key))>>
           ELSE IF key \notin Keys(b)
           THEN <<NewDiff(next_path, "missing_in_target", Get(a, key), Null)>>
           ELSE DiffOf(Get(a, key), Get(b, key), next_path, paths))
          \o DiffKeys(a, b, Tail(keys), path, paths)

DiffOf(a, b, path, paths) ==
  IF a = Null /\ b = Null THEN << >>
  ELSE IF ~SameType(a, b)
  THEN <<NewDiff(PathOrRoot(path), "type_mismatch", StrVal(TypeName(a)), StrVal(TypeName(b)))>>
  ELSE IF a.type = "dict"
  THEN DiffKeys(a, b, SortedKeys(Keys(a) \cup Keys(b)), path, paths)
  ELSE IF a.type = "list"
  THEN IF path \in paths
       THEN DiffListInsensitive(a.elems, b.elems, path)
       ELSE DiffListSensitive(a.elems, b.elems, path, paths)
  ELSE IF ~ValuesEqual(a, b)
  THEN <<NewDiff(PathOrRoot(path), "value_mismatch", a, b)>>
  ELSE << >>

\* compare_documents
CompareDocumentsResult(s_doc, t_doc, fields, paths) ==
  DiffOf(Prune(s_doc, ExcludeAnywhere(fields), ExcludePaths(fields), << >>),
         Prune(t_doc, ExcludeAnywhere(fields), ExcludePaths(fields), << >>),
         << >>, paths)

CompareIdle ==
  /\ source_doc = Dict(<< >>)
  /\ target_doc = Dict(<< >>)
  /\ exclude_fields = {}
  /\ array_order_insensitive_paths = {}
  /\ diffs = << >>
  /\ cmp_pc = "idle"

InitCompare ==
  /\ source_doc \in Documents
  /\ target_doc \in Documents
  /\ exclude_fields \in ExcludeFieldSets
  /\ array_order_insensitive_paths \in InsensitivePathSets
  /\ diffs = << >>
  /\ cmp_pc = "call"

CompareDocuments ==
  /\ cmp_pc = "call"
  /\ diffs' = CompareDocumentsResult(source_doc, target_doc, exclude_fields,
                                     array_order_insensitive_paths)
  /\ cmp_pc' = "returned"
  /\ UNCHANGED <<source_doc, target_doc, exclude_fields, array_order_insensitive_paths>>
  /\ UNCHANGED <<svars, qvars, mvars, cvars, rvars, evars>>

NextCompare == CompareDocuments

(***************************************************************************)
(* compute_sample_size on its own.                                         *)
(***************************************************************************)
MaxSizeTotal == 50
MaxPercentage == 100

SizeIdle ==
  /\ cs_total = 0
  /\ cs_percentage = None
  /\ cs_count = None
  /\ cs_size = 0
  /\ cs_pc = "idle"

\* load_config accepts a percentage in (0, 100] or a count above 0, never
\* both.
InitSize ==
  /\ cs_total \in 0..MaxSizeTotal
  /\ \/ cs_percentage \in {Some(p) : p \in 1..MaxPercentage} /\ cs_count = None
     \/ cs_percentage = None /\ cs_count \in {Some(c) : c \in 1..(MaxSizeTotal + 1)}
  /\ cs_size = 0
  /\ cs_pc = "call"

ComputeSampleSizeCall ==
  /\ cs_pc = "call"
  /\ cs_size' = ComputeSampleSize(cs_total, cs_percentage, cs_count)
  /\ cs_pc' = "returned"
  /\ UNCHANGED <<cs_total, cs_percentage, cs_count>>
  /\ UNCHANGED NotSize

NextSize == ComputeSampleSizeCall

(***************************************************************************)
(* main: load_config, the log directories, run_compare, the exit status.   *)
(***************************************************************************)
MainIdle ==
  /\ main_pc = "idle"
  /\ main_error = "none"
  /\ exit_code = None

\* parse_args has returned: the run mode is known, nothing else is.
InitMain ==
  /\ main_pc = "load_config"
  /\ main_error = "none"
  /\ exit_code = None
  /\ \E m \in {<<Some(NameA), FALSE>>, <<Some(NameB), FALSE>>, <<None, TRUE>>, <<None, FALSE>>} :
       single_collection = m[1] /\ all_collections = m[2]
  /\ cfg_collections = << >>
  /\ collection_defaults = ConfigOff
  /\ sampling = [percentage |-> None, count |-> None]
  /\ compare_concurrency = 0
  /\ source = "none"
  /\ target = "none"
  /\ collections = << >>
  /\ ci = 0
  /\ journal = [p \in LogPaths |-> <<StaleRecord>>]
  /\ clock = 1
  /\ target_total = 0
  /\ stats = NewStats(<< >>, 0, 0, 0)
  /\ candidates = << >>
  /\ tasks = << >>
  /\ processed = 0
  /\ error = "none"
  /\ pc = "idle"

RunState == <<source, target, collections, ci, journal, clock, error, PerCollection>>

\* Line 30: load_config(args.config) returns the AppConfig.
LoadConfig ==
  /\ main_pc = "load_config"
  /\ cfg_collections' \in ConfigMaps
  /\ collection_defaults' \in {ConfigOn, ConfigNoKey}
  /\ sampling' = [percentage |-> None, count |-> Some(MaxTotal)]
  /\ compare_concurrency' \in 1..MaxWorkers
  /\ main_pc' = "makedirs"
  /\ UNCHANGED <<single_collection, all_collections, RunState, pc, main_error, exit_code>>
  /\ UNCHANGED NotMain

\* load_config raises ConfigError (or the file cannot be read): line 30 is
\* outside the try block of main, the exception leaves main, and the
\* interpreter ends the process with its traceback and status 1.
LoadConfigFails ==
  /\ main_pc = "load_config"
  /\ main_error' = "load_config"
  /\ exit_code' = Some(1)
  /\ main_pc' = "exited"
  /\ UNCHANGED <<RunConf, RunState, pc>>
  /\ UNCHANGED NotMain

\* Lines 32-47: the directories exist or are made, the logger is built, and
\* run_compare is called.
MakeDirs ==
  /\ main_pc = "makedirs"
  /\ main_pc' = "run"
  /\ pc' = "build_source"
  /\ UNCHANGED <<RunConf, RunState, main_error, exit_code>>
  /\ UNCHANGED NotMain

\* os.makedirs or build_logger raises OSError, outside the try block.
MakeDirsFails ==
  /\ main_pc = "makedirs"
  /\ main_error' = "makedirs"
  /\ exit_code' = Some(1)
  /\ main_pc' = "exited"
  /\ UNCHANGED <<RunConf, RunState, pc>>
  /\ UNCHANGED NotMain

\* Line 59: run_compare returned, SystemExit(0).
MainReturns ==
  /\ main_pc = "run"
  /\ pc = "returned"
  /\ exit_code' = Some(0)
  /\ main_pc' = "exited"
  /\ UNCHANGED <<RunConf, RunState, pc, main_error>>
  /\ UNCHANGED NotMain

\* Lines 56-58: run_compare raised, the exception is logged, SystemExit(2).
MainFatal ==
  /\ main_pc = "run"
  /\ pc = "raised"
  /\ exit_code' = Some(2)
  /\ main_pc' = "exited"
  /\ UNCHANGED <<RunConf, RunState, pc, main_error>>
  /\ UNCHANGED NotMain

NextMain ==
  \/ LoadConfig \/ LoadConfigFails \/ MakeDirs \/ MakeDirsFails
  \/ Next
  \/ MainReturns \/ MainFatal

(***************************************************************************)
(* run_compare, lines 87-113: the candidates of the sampled documents and   *)
(* the target lookup of each, over documents with their structure.         *)
(***************************************************************************)
MaxSampled == 1

\* The business keys load_config accepts (_as_field_path): a field name, or
\* field names joined by dots.
BusinessKeys == {<<"id">>, <<"x">>, <<"x", ".", "id">>}

\* Sampled documents: an id, an x, both or neither, x a scalar or an inner
\* document.
SampledDocuments ==
  {Dict(items) : items \in ItemsOver("id", {IntVal(1), IntVal(2)}, "x", Leaves \cup InnerDicts)}

\* dict.get(key): the value of the item whose name is the whole of key, None
\* without one.
DictGet(d, key) ==
  IF \E k \in Keys(d) : <<k>> = key THEN Get(d, CHOOSE k \in Keys(d) : <<k>> = key)
  ELSE Null

\* Lines 87-93 over the documents ds.
RECURSIVE CandidatesOf(_, _)
CandidatesOf(ds, key) ==
  IF ds = << >> THEN [missing |-> 0, candidates |-> << >>]
  ELSE LET rest == CandidatesOf(Tail(ds), key)
           key_value == DictGet(Head(ds), key)
       IN IF key_value = Null
          THEN [missing |-> rest.missing + 1, candidates |-> rest.candidates]
          ELSE [missing |-> rest.missing,
                candidates |-> <<[key_value |-> key_value, src_doc |-> Head(ds)]>>
                                 \o rest.candidates]

CandidatesIdle ==
  /\ bk_key = << >>
  /\ bk_sampled = << >>
  /\ bk_missing = 0
  /\ bk_candidates = << >>
  /\ bk_lookups = << >>
  /\ bk_pc = "idle"

InitCandidates ==
  /\ bk_key \in BusinessKeys
  /\ bk_sampled \in UNION {[1..n -> SampledDocuments] : n \in 0..MaxSampled}
  /\ bk_missing = 0
  /\ bk_candidates = << >>
  /\ bk_lookups = << >>
  /\ bk_pc = "build"

\* Lines 87-93: the loop over the sampled documents.
BuildCandidateList ==
  /\ bk_pc = "build"
  /\ bk_missing' = CandidatesOf(bk_sampled, bk_key).missing
  /\ bk_candidates' = CandidatesOf(bk_sampled, bk_key).candidates
  /\ bk_pc' = "compare"
  /\ UNCHANGED <<bk_key, bk_sampled, bk_lookups>>
  /\ UNCHANGED NotCandidates

\* Lines 95-97 under map(compare_one, candidates): compare_one of the next
\* candidate calls target.find_by_business_key with its key value.
CompareOneLookup ==
  /\ bk_pc = "compare"
  /\ Len(bk_lookups) < Len(bk_candidates)
  /\ bk_lookups' = Append(bk_lookups, bk_candidates[Len(bk_lookups) + 1].key_value)
  /\ UNCHANGED <<bk_key, bk_sampled, bk_missing, bk_candidates, bk_pc>>
  /\ UNCHANGED NotCandidates

\* The iterator of results is exhausted.
CompareAllDone ==
  /\ bk_pc = "compare"
  /\ Len(bk_lookups) = Len(bk_candidates)
  /\ bk_pc' = "done"
  /\ UNCHANGED <<bk_key, bk_sampled, bk_missing, bk_candidates, bk_lookups>>
  /\ UNCHANGED NotCandidates

NextCandidates == BuildCandidateList \/ CompareOneLookup \/ CompareAllDone

(***************************************************************************)
(* CosmosSqlSourceClient.find_by_business_key called from the threads of   *)
(* the pool of _fetch_source_documents_by_keys, on one client.             *)
(* `self.x += 1` loads the attribute, adds, and stores it: nothing makes   *)
(* the three one step, and no lock is held, so another thread may run      *)
(* between the load and the store.                                         *)
(***************************************************************************)
MaxLookupThreads == 2
MaxLookups == 3

LookupThreads == 1..MaxLookupThreads
ThreadAtRest == [at |-> "idle", found |-> FALSE, loaded |-> 0]

PointLookupIdle ==
  /\ point_lookup_calls = 0
  /\ point_lookup_found = 0
  /\ lookup_threads = << >>
  /\ lookup_pending = 0
  /\ lookups_completed = 0
  /\ lookups_returned_doc = 0

\* A new client (its counters are 0: __init__, lines 60-61) and the keys
\* handed to executor.map.
InitPointLookup ==
  /\ point_lookup_calls = 0
  /\ point_lookup_found = 0
  /\ lookup_threads = [t \in LookupThreads |-> ThreadAtRest]
  /\ lookup_pending \in 1..MaxLookups
  /\ lookups_completed = 0
  /\ lookups_returned_doc = 0

\* A free thread of the pool takes the next call of fetch_one.
PointLookupCall(t) ==
  /\ lookup_threads[t].at = "idle"
  /\ lookup_pending > 0
  /\ lookup_pending' = lookup_pending - 1
  /\ lookup_threads' = [lookup_threads EXCEPT ![t].at = "query"]
  /\ UNCHANGED <<point_lookup_calls, point_lookup_found, lookups_completed,
                 lookups_returned_doc>>
  /\ UNCHANGED NotPointLookup

\* Lines 310-317: the query returned, with a document or without.
PointLookupQuery(t) ==
  /\ lookup_threads[t].at = "query"
  /\ \E found \in BOOLEAN :
       lookup_threads' = [lookup_threads EXCEPT ![t] = [at |-> "load_calls", found |-> found,
                                                        loaded |-> 0]]
  /\ UNCHANGED <<point_lookup_calls, point_lookup_found, lookup_pending, lookups_completed,
                 lookups_returned_doc>>
  /\ UNCHANGED NotPointLookup

\* Lines 332-340: the query raised; the counters are not touched and the
\* exception leaves find_by_business_key.
PointLookupQueryRaises(t) ==
  /\ lookup_threads[t].at = "query"
  /\ lookup_threads' = [lookup_threads EXCEPT ![t] = ThreadAtRest]
  /\ UNCHANGED <<point_lookup_calls, point_lookup_found, lookup_pending, lookups_completed,
                 lookups_returned_doc>>
  /\ UNCHANGED NotPointLookup

\* Line 318, `self._point_lookup_calls += 1`: the load.
LoadCalls(t) ==
  /\ lookup_threads[t].at = "load_calls"
  /\ lookup_threads' = [lookup_threads EXCEPT ![t].at = "store_calls",
                                               ![t].loaded = point_lookup_calls]
  /\ UNCHANGED <<point_lookup_calls, point_lookup_found, lookup_pending, lookups_completed,
                 lookups_returned_doc>>
  /\ UNCHANGED NotPointLookup

\* Line 318: the store of the loaded value plus 1; line 319, `if found`.
StoreCalls(t) ==
  /\ lookup_threads[t].at = "store_calls"
  /\ point_lookup_calls' = lookup_threads[t].loaded + 1
  /\ lookup_threads' = [lookup_threads EXCEPT
                          ![t].at = IF lookup_threads[t].found THEN "load_found" ELSE "return"]
  /\ UNCHANGED <<point_lookup_found, lookup_pending, lookups_completed, lookups_returned_doc>>
  /\ UNCHANGED NotPointLookup

\* Line 320, `self._point_lookup_found += 1`: the load.
LoadFound(t) ==
  /\ lookup_threads[t].at = "load_found"
  /\ lookup_threads' = [lookup_threads EXCEPT ![t].at = "store_found",
                                               ![t].loaded = point_lookup_found]
  /\ UNCHANGED <<point_lookup_calls, point_lookup_found, lookup_pending, lookups_completed,
                 lookups_returned_doc>>
  /\ UNCHANGED NotPointLookup

\* Line 320: the store.
StoreFound(t) ==
  /\ lookup_threads[t].at = "store_found"
  /\ point_lookup_found' = lookup_threads[t].loaded + 1
  /\ lookup_threads' = [lookup_threads EXCEPT ![t].at = "return"]
  /\ UNCHANGED <<point_lookup_calls, lookup_pending, lookups_completed, lookups_returned_doc>>
  /\ UNCHANGED NotPointLookup

\* Line 331: `return results[0] if results else None`.
PointLookupReturn(t) ==
  /\ lookup_threads[t].at = "return"
  /\ lookups_completed' = lookups_completed + 1
  /\ lookups_returned_doc' = lookups_returned_doc + (IF lookup_threads[t].found THEN 1 ELSE 0)
  /\ lookup_threads' = [lookup_threads EXCEPT ![t] = ThreadAtRest]
  /\ UNCHANGED <<point_lookup_calls, point_lookup_found, lookup_pending>>
  /\ UNCHANGED NotPointLookup

NextPointLookup ==
  \E t \in LookupThreads :
    \/ PointLookupCall(t) \/ PointLookupQuery(t) \/ PointLookupQueryRaises(t)
    \/ LoadCalls(t) \/ StoreCalls(t) \/ LoadFound(t) \/ StoreFound(t)
    \/ PointLookupReturn(t)

\* The functions modelled on their own, at rest.
ExtraIdle == SizeIdle /\ MainIdle /\ CandidatesIdle /\ PointLookupIdle

(***************************************************************************)
(* The specifications.                                                     *)
(***************************************************************************)
Init == InitRun /\ SelectIdle /\ RetryIdle /\ SampleIdle /\ CompareIdle /\ ExtraIdle
Spec == Init /\ [][Next]_vars

InitSelectOnly ==
  InitSelect /\ RetryIdle /\ SampleIdle /\ CommonIdle /\ RunIdle /\ CompareIdle /\ ExtraIdle
SpecSelect == InitSelectOnly /\ [][NextSelect]_vars

InitRetryOnly ==
  InitRetry /\ SelectIdle /\ SampleIdle /\ CommonIdle /\ RunIdle /\ CompareIdle /\ ExtraIdle
SpecRetry == InitRetryOnly /\ [][NextRetry]_vars

\* The bucket sampler ranks the bucket ids in whatever order the hash gives
\* them, so collections that differ by a renaming of the bucket ids have
\* the same runs: one of each class is taken, the one whose buckets are
\* numbered in the order the documents first use them.  Without bucket
\* parameters the bucket field is never read.
BucketsNumberedByFirstUse(c) ==
  \A i \in DOMAIN c : c[i].bucket <= Cardinality({c[j].bucket : j \in 1..(i - 1)})

InitSample ==
  /\ \E p \in SamplingPolicies :
       /\ mode = p.mode
       /\ seed = p.seed
       /\ bucket_modulus = p.bucket_modulus
       /\ bucket_count = p.bucket_count
       /\ det_max_scan_keys = p.deterministic_max_scan_keys
       /\ source_lookup_concurrency = p.source_lookup_concurrency
  /\ src_docs \in IF bucket_modulus = None
                  THEN {c \in SourceCollections : \A i \in DOMAIN c : c[i].bucket = 0}
                  ELSE {c \in SourceCollections : BucketsNumberedByFirstUse(c)}
  /\ source_total = Len(src_docs)
  /\ \E c \in SizeConfigs : sample_size = ComputeSampleSize(source_total, c.percentage, c.count)
  /\ sampled = << >>
  /\ mode_normalized = "none"
  /\ ranked_bucket_ids = << >>
  /\ bucket_start = 0
  /\ deduped_docs = << >>
  /\ bucket_returned = << >>
  /\ det_keys = << >>
  /\ fetched = 0
  /\ lookups = << >>
  /\ docs = << >>
  /\ driver_calls = NoCalls
  /\ sm_error = FALSE
  /\ sm_pc = "call"

InitSampleOnly ==
  InitSample /\ SelectIdle /\ RetryIdle /\ RunIdle /\ CompareIdle /\ ExtraIdle
SpecSample == InitSampleOnly /\ [][NextSample]_vars

\* Source collections large enough to keep a pool of two workers busy with
\* a call waiting.
MaxPipelineDocs == 3
PipelineCollections ==
  {[i \in 1..m |-> Doc(i, IntKey(1 + (i % 2)), 0)] : m \in 0..MaxPipelineDocs}

\* One collection from the sampling call to the end of its comparison, the
\* deterministic strategy and the compare loop taken step by step: the
\* run is at line 61 with both drivers open and the counts made.
InitPipeline ==
  /\ single_collection = Some(NameA)
  /\ all_collections = FALSE
  /\ cfg_collections = (NameA :> ConfigOn)
  /\ collection_defaults = ConfigOn
  /\ sampling \in {[percentage |-> Some(100), count |-> None],
                   [percentage |-> None, count |-> Some(1)]}
  /\ compare_concurrency \in 1..MaxWorkers
  /\ source = "open"
  /\ target = "open"
  /\ collections = <<NameA>>
  /\ ci = 1
  /\ journal = [p \in LogPaths |-> << >>]
  /\ clock = 1
  /\ target_total = 0
  /\ stats = NewStats(<< >>, 0, 0, 0)
  /\ candidates = << >>
  /\ tasks = << >>
  /\ processed = 0
  /\ error = "none"
  /\ pc = "sample"
  /\ mode = "deterministic"
  /\ seed = Some(Seed)
  /\ bucket_modulus = None
  /\ bucket_count = 1
  /\ det_max_scan_keys = None
  /\ source_lookup_concurrency \in 1..MaxWorkers
  /\ src_docs \in PipelineCollections
  /\ source_total = Len(src_docs)
  /\ sample_size = ComputeSampleSize(source_total, sampling.percentage, sampling.count)
  /\ sampled = << >>
  /\ mode_normalized = "none"
  /\ ranked_bucket_ids = << >>
  /\ bucket_start = 0
  /\ deduped_docs = << >>
  /\ bucket_returned = << >>
  /\ det_keys = << >>
  /\ fetched = 0
  /\ lookups = << >>
  /\ docs = << >>
  /\ driver_calls = NoCalls
  /\ sm_error = FALSE
  /\ sm_pc = "call"
  /\ SelectIdle
  /\ RetryIdle
  /\ CompareIdle
  /\ ExtraIdle

NextPipeline ==
  \/ SampleEnter \/ ResolveMode \/ SelectKeys \/ SelectKeysFails
  \/ (\E i \in DOMAIN lookups : LookupStart(i) \/ LookupFinish(i) \/ LookupFails(i))
  \/ FetchOne \/ FetchFails \/ FetchShutdownDone \/ FetchReturn
  \/ SampleReturned \/ SampleRaised
  \/ (\E i \in DOMAIN tasks : TaskStart(i) \/ TaskFinish(i) \/ TaskFails(i))
  \/ DrainResult \/ DrainFailure \/ ShutdownDone \/ CollectionDone

SpecPipeline == InitPipeline /\ [][NextPipeline]_vars

InitCompareOnly ==
  InitCompare /\ SelectIdle /\ RetryIdle /\ SampleIdle /\ CommonIdle /\ RunIdle
    /\ ExtraIdle
SpecCompare == InitCompareOnly /\ [][NextCompare]_vars

\* The machines of run_compare and of its parts, at rest.
CoreIdle ==
  SelectIdle /\ RetryIdle /\ SampleIdle /\ CommonIdle /\ RunIdle /\ CompareIdle

InitSizeOnly == InitSize /\ CoreIdle /\ MainIdle /\ CandidatesIdle /\ PointLookupIdle

InitMainOnly ==
  InitMain /\ SelectIdle /\ RetryIdle /\ SampleIdle /\ CommonIdle /\ CompareIdle /\ SizeIdle
    /\ CandidatesIdle /\ PointLookupIdle
SpecMain == InitMainOnly /\ [][NextMain]_vars

InitCandidatesOnly == InitCandidates /\ CoreIdle /\ SizeIdle /\ MainIdle /\ PointLookupIdle
SpecCandidates == InitCandidatesOnly /\ [][NextCandidates]_vars

InitPointLookupOnly ==
  InitPointLookup /\ CoreIdle /\ SizeIdle /\ MainIdle /\ CandidatesIdle
SpecPointLookup == InitPointLookupOnly /\ [][NextPointLookup]_vars
SpecSize == InitSizeOnly /\ [][NextSize]_vars

(***************************************************************************)
(* The properties.                                                         *)
(***************************************************************************)

\* C1: when run_compare has finished processing a collection, its stats
\* satisfy matched + mismatched = found_in_both and found_in_both +
\* missing_in_target + source_missing_business_key = sampled, sampled being
\* the number of documents the sampling returned.
C1_StatsAddUp ==
  pc = "summary" =>
    /\ stats.matched + stats.mismatched = stats.found_in_both
    /\ stats.found_in_both + stats.missing_in_target + stats.source_missing_business_key
         = stats.sampled
    /\ stats.sampled = Len(sampled)

\* C1 witness: a collection compared through the pool ended with one
\* mismatch and one document missing in the target.
C1_Witness ==
  /\ pc = "summary"
  /\ ~Serial(compare_concurrency, candidates)
  /\ stats.mismatched = 1
  /\ stats.missing_in_target = 1

\* The key values of the candidates whose compare_one returned a mismatch,
\* in candidate order.
MismatchedKeyValues ==
  LET pairs == [i \in DOMAIN tasks |->
                  [key_value |-> candidates[i].key_value, result |-> tasks[i].result]]
      hits == SelectSeq(pairs, LAMBDA x : x.result = "mismatch")
  IN [i \in DOMAIN hits |-> hits[i].key_value]

\* C2: when a collection's run has completed, its mismatch file holds one
\* record per document counted in mismatched, for exactly the candidates
\* that compared as a mismatch, and no record written before the run.
C2_JournalHoldsExactlyTheMismatches ==
  pc = "summary" =>
    LET file == journal[CollectionLogPath(CurrentCollection)]
    IN /\ Len(file) = stats.mismatched
       /\ [i \in DOMAIN file |-> file[i].business_key_value] = MismatchedKeyValues
       /\ \A i \in DOMAIN file : file[i].ts >= 1

\* C2 witness: a run that started over stale files ended a collection with
\* one match and one mismatch.
C2_Witness ==
  /\ pc = "summary"
  /\ stats.mismatched = 1
  /\ stats.matched = 1
  /\ \E p \in LogPaths : p # CollectionLogPath(CurrentCollection) /\ journal[p] = <<StaleRecord>>

\* C3: for a fixed seed and sample_size and no scan cap, the call returns
\* the same multiset of keys for every order in which iter_business_keys
\* yields the same keys (stated for the orders on which the call returns).
C3_SameMultisetForEveryPermutation ==
  (sel_pc = "done" /\ max_scan_keys = None) =>
    \A p \in PermutationsOf(iter_keys) :
      LET o == SelectOutcome(digest, p, k_sample_size, None)
      IN o.status = "done" => BagOf(o.selected) = BagOf(selected)

\* C4: with max_scan_keys = K no key after the K-th of the stream is scored,
\* and every key in the heap or in the result is one of the first K values.
C4_ScanCapRespected ==
  max_scan_keys # None =>
    /\ \A i \in scored : i <= max_scan_keys[1]
    /\ \A j \in DOMAIN heap :
         \E i \in 1..max_scan_keys[1] : i <= Len(iter_keys) /\ iter_keys[i] = heap[j][2]
    /\ \A j \in DOMAIN selected :
         \E i \in 1..max_scan_keys[1] : i <= Len(iter_keys) /\ iter_keys[i] = selected[j]

\* C4 witness: the call returned keys under a cap that cut the stream short,
\* and a key beyond the cap scores lower than a returned key (it would have
\* been selected had it been scored).
C4_Witness ==
  /\ sel_pc = "done"
  /\ max_scan_keys # None
  /\ Len(iter_keys) > max_scan_keys[1]
  /\ selected # << >>
  /\ \E i \in DOMAIN iter_keys, j \in DOMAIN selected :
       /\ i > max_scan_keys[1]
       /\ iter_keys[i] # NullKey
       /\ StableScore(digest, iter_keys[i]) < StableScore(digest, selected[j])

\* C5: when sample_size >= the number of keys of the source (and no cap is
\* set) the call returns, and returns every non-null key of the stream
\* exactly once.
C5_SelectsEveryKeyOnce ==
  (/\ sel_pc \in {"done", "raised"}
   /\ max_scan_keys = None
   /\ k_sample_size >= Len(iter_keys)) =>
    /\ sel_pc = "done"
    /\ BagOf(selected) = BagOf(NonNull(iter_keys))

\* C6: whatever the mode and the fallbacks taken, the list that
\* sample_source_documents returns is no longer than source_total and no
\* longer than the sample size compute_sample_size gave.
C6_SampledWithinBounds ==
  sm_pc = "returned" => Len(sampled) <= source_total /\ Len(sampled) <= sample_size

\* C6 witness: bucket sampling returned exactly sample_size documents of a
\* larger collection.
C6_Witness ==
  /\ sm_pc = "returned"
  /\ driver_calls["sample_documents_by_buckets"] >= 1
  /\ sample_size >= 1
  /\ Len(sampled) = sample_size
  /\ sample_size < source_total

\* C7: on every exit of run_compare, every driver handle it created has had
\* close() called on it.
C7_DriversClosedOnEveryExit ==
  pc \in {"returned", "raised"} =>
    /\ source \in {"none", "closed", "close_failed"}
    /\ target \in {"none", "closed", "close_failed"}

Last(q) == q[Len(q)]
RateLimited(e) == e.status_code = 429

\* C8: through the retry helper the query is issued at most A times; a
\* return hands back the rows of the first successful attempt; when the A-th
\* attempt fails with a rate-limit error that error is raised; one sleep
\* lies between consecutive attempts and none after the last.
C8_AtMostAAttempts ==
  UsesRetryHelper(api, operation) =>
    /\ Len(history) <= retry_max_attempts
    /\ rt_pc = "returned" =>
         /\ history # << >>
         /\ Last(history).ok
         /\ op_result = Last(history).rows
         /\ \A i \in 1..(Len(history) - 1) : ~history[i].ok
    /\ (/\ rt_pc \in {"loop", "returned", "raised"}
        /\ Len(history) = retry_max_attempts
        /\ ~Last(history).ok
        /\ RateLimited(Last(history).exc)) =>
         rt_pc = "raised" /\ op_error = Last(history).exc
    /\ rt_pc \in {"returned", "raised"} => Len(sleeps) = Len(history) - 1

\* C8 witness: with A >= 2 every attempt was throttled and the last 429 was
\* raised.
C8_Witness ==
  /\ UsesRetryHelper(api, operation)
  /\ retry_max_attempts >= 2
  /\ rt_pc = "raised"
  /\ Len(history) = retry_max_attempts
  /\ RateLimited(op_error)

\* C9: an error that is not a rate-limit error ends the operation on the
\* attempt where it occurs: no sleep follows it, no attempt follows it, and
\* it is the error raised.
C9_OtherErrorsPropagate ==
  \A i \in DOMAIN history :
    (~history[i].ok /\ ~RateLimited(history[i].exc)) =>
      /\ i = Len(history)
      /\ rt_pc \in {"except", "raised"}
      /\ Len(sleeps) = i - 1
      /\ rt_pc = "raised" => op_error = history[i].exc

\* C9 witness: the helper raised a server error on the second of three
\* attempts.
C9_Witness ==
  /\ UsesRetryHelper(api, operation)
  /\ retry_max_attempts = 3
  /\ Len(history) = 2
  /\ rt_pc = "raised"
  /\ op_error = ServerError

\* C10: with A >= 2, an operation of the SQL source driver during which the
\* store throttles exactly once, and fails in no other way, returns.
C10_SingleThrottleSurvived ==
  (/\ api = "sql"
   /\ rt_pc \in {"returned", "raised"}
   /\ retry_max_attempts >= 2
   /\ Cardinality({i \in DOMAIN history : ~history[i].ok}) = 1
   /\ \A i \in DOMAIN history : ~history[i].ok => RateLimited(history[i].exc)) =>
    rt_pc = "returned"

\* C11: once a compare_one call has failed, no call that had not started is
\* started, no counter is updated and no journal record is written.
C11_NothingAfterTaskFailure ==
  [][(\E i \in DOMAIN tasks : tasks[i].state = "failed") =>
       /\ stats' = stats
       /\ journal' = journal
       /\ \A i \in DOMAIN tasks :
            tasks[i].state = "pending" => tasks'[i].state # "running"]_vars

\* C12: at every moment at most compare_concurrency target lookups and at
\* most source_lookup_concurrency source point lookups are in flight; with
\* a pool size of 1 each call is made by the thread that takes the results,
\* when it asks for that result and with no other call in flight.
C12_LookupsWithinPoolSize ==
  /\ Cardinality(Running(tasks)) <= compare_concurrency
  /\ Cardinality(Running(lookups)) <= source_lookup_concurrency
  /\ compare_concurrency = 1 =>
       \A i \in DOMAIN tasks :
         tasks[i].state \in {"running", "done", "failed"} => i <= processed + 1
  /\ source_lookup_concurrency = 1 =>
       \A i \in DOMAIN lookups :
         lookups[i].state \in {"running", "done", "failed"} => i <= fetched + 1

\* C12 witness: two target lookups are in flight under compare_concurrency
\* = 2 while a third waits for a worker, after three source lookups went
\* through a pool of two.
C12_Witness ==
  /\ compare_concurrency = 2
  /\ Cardinality(Running(tasks)) = 2
  /\ \E i \in DOMAIN tasks : tasks[i].state = "pending"
  /\ source_lookup_concurrency = 2
  /\ Len(lookups) = 3

\* C13: the phases of a collection follow one another and the collections
\* are taken one at a time.  A target lookup is in flight only in the
\* compare phase, after the counts and the sampling of its collection; when
\* the run goes on to the summary, to the next collection, its counts or its
\* sampling, every result of the collection before was drained; and the
\* counters and the journal change only in the compare phase, apart from
\* the creation of the stats when sampling returns and the clearing of the
\* journal when a collection is entered.
C13_PhasesInOrder ==
  [][/\ Running(tasks)' # {} => pc' \in {"compare", "shutdown"}
     /\ pc' \in {"summary", "loop", "count", "sample"} =>
          /\ processed' = Len(tasks')
          /\ \A i \in DOMAIN tasks' : tasks'[i].state = "done"
     /\ stats' # stats => pc = "compare" \/ (pc = "sample" /\ pc' = "compare")
     /\ journal' # journal => pc = "compare" \/ (pc = "loop" /\ pc' = "count")
     /\ (pc = "sample" /\ pc' = "compare") =>
          \A i \in DOMAIN tasks' : tasks'[i].state = "pending"]_vars

\* C13 witness: the second collection of the run is in its compare phase
\* with a target lookup in flight, the first one having had a mismatch
\* journaled.
C13_Witness ==
  /\ ci = 2
  /\ pc = "compare"
  /\ Running(tasks) # {}
  /\ \E p \in LogPaths : \E i \in DOMAIN journal[p] : journal[p][i].ts = clock

\* C14: in fast mode without bucket parameters, with a sample to take,
\* source.sample_documents is called exactly once; when the call succeeds
\* its result is returned and iter_business_keys was never called; when it
\* fails nothing is raised and the deterministic strategy takes over, so
\* that the key scan and the point lookups come only after that one call.
C14_FastModeOneCallThenFallback ==
  [][(mode = "fast" /\ bucket_modulus = None /\ sample_size > 0) =>
       /\ driver_calls'["sample_documents"] <= 1
       /\ sm_pc = "fast" =>
            /\ driver_calls["sample_documents"] = 0
            /\ driver_calls'["sample_documents"] = 1
            /\ ~sm_error'
            /\ \/ /\ sm_pc' = "returned"
                  /\ sampled' \in SampleDocumentsAnswers(src_docs, sample_size)
                  /\ driver_calls'["iter_business_keys"] = 0
                  /\ driver_calls'["find_by_business_key"] = 0
               \/ sm_pc' = "deterministic"
       /\ sm_pc' \in {"returned", "raised", "deterministic", "fetch", "fetch_shutdown"} =>
            driver_calls'["sample_documents"] = 1
       /\ driver_calls'["sample_documents_by_buckets"] = 0]_vars

\* C14 witness: the one sample_documents call failed and the deterministic
\* strategy returned a document it looked up.
C14_Witness ==
  /\ mode = "fast"
  /\ bucket_modulus = None
  /\ driver_calls["sample_documents"] = 1
  /\ driver_calls["iter_business_keys"] = 1
  /\ driver_calls["find_by_business_key"] >= 1
  /\ sm_pc = "returned"
  /\ Len(sampled) >= 1

\* C15: with bucket parameters set, the bucket sampler runs before any
\* other strategy, and sample_documents or iter_business_keys is called
\* only when the bucket sampler collected nothing and the mode is 'bucket'.
C15_OnlyBucketModeFallsBack ==
  (bucket_modulus # None
     /\ driver_calls["sample_documents"] + driver_calls["iter_business_keys"] > 0) =>
    /\ driver_calls["sample_documents_by_buckets"] >= 1
    /\ deduped_docs = << >>
    /\ mode = "bucket"
    /\ driver_calls["sample_documents"] = 0

\* The first document with that business key among those the
\* sample_documents_by_buckets calls returned.
FirstReturnedWith(key) ==
  LET at == {j \in DOMAIN bucket_returned : bucket_returned[j].key = key}
  IN bucket_returned[CHOOSE j \in at : \A k \in at : j <= k]

\* C16: every document in the result of bucket sampling is the first one
\* returned, over all sample_documents_by_buckets calls, with its
\* business-key value.
C16_BucketDedupeFirstWins ==
  (sm_pc = "returned" /\ deduped_docs # << >>) =>
    \A i \in DOMAIN sampled : sampled[i] = FirstReturnedWith(sampled[i].key)

\* C17: a document compared with itself gives the empty list, whatever
\* the exclusions and the order-insensitive paths.
C17_SameDocumentNoDiff ==
  (cmp_pc = "returned" /\ source_doc = target_doc) => diffs = << >>

\* The key names on a path, in order, and the text of a rooted path of
\* keys.
KeysOnPath(path) == SelectSeq(path, LAMBDA p : \E i \in DOMAIN KeyOrder : KeyOrder[i] = p)
RECURSIVE JoinDots(_)
JoinDots(keys) ==
  IF Len(keys) <= 1 THEN keys ELSE <<Head(keys), ".">> \o JoinDots(Tail(keys))

\* The field reached by these keys is hidden by exclude_fields: its name is
\* a bare entry, or its rooted path is a dotted entry.
Hidden(keys, fields) ==
  keys # << >> /\ (<<keys[Len(keys)]>> \in fields \/ (Len(keys) > 1 /\ JoinDots(keys) \in fields))

\* A path addresses an excluded field when the field it names, or a field
\* above it, is hidden.
AddressesExcluded(path, fields) ==
  \E n \in 1..Len(KeysOnPath(path)) : Hidden(SubSeq(KeysOnPath(path), 1, n), fields)

\* Two values differ, if at all, only in hidden fields: the same type, for
\* dicts every key that is not hidden in both with values that differ only
\* in hidden fields, for lists the same length and elements that do, for
\* scalars Python's ==.
RECURSIVE DifferOnlyInExcluded(_, _, _, _)
DifferOnlyInExcluded(a, b, keys, fields) ==
  /\ a.type = b.type
  /\ CASE a.type = "dict" ->
            \A k \in Keys(a) \cup Keys(b) :
              \/ Hidden(Append(keys, k), fields)
              \/ /\ k \in Keys(a) \cap Keys(b)
                 /\ DifferOnlyInExcluded(Get(a, k), Get(b, k), Append(keys, k), fields)
       [] a.type = "list" ->
            /\ Len(a.elems) = Len(b.elems)
            /\ \A i \in DOMAIN a.elems :
                 DifferOnlyInExcluded(a.elems[i], b.elems[i], keys, fields)
       [] OTHER -> a = Null \/ (a = b /\ a # NaN)

ElementBag(s) == [x \in {s[i] : i \in DOMAIN s} |-> Cardinality({i \in DOMAIN s : s[i] = x})]

\* Both documents hold a list at x and agree on everything else.
BothListsAtX ==
  /\ cmp_pc = "returned"
  /\ exclude_fields = {}
  /\ "x" \in Keys(source_doc) /\ Get(source_doc, "x").type = "list"
  /\ "x" \in Keys(target_doc) /\ Get(target_doc, "x").type = "list"
  /\ Keys(source_doc) = Keys(target_doc)
  /\ "id" \in Keys(source_doc) => Get(source_doc, "id") = Get(target_doc, "id")

\* C19: at a path listed as order-insensitive two lists give no Diff
\* exactly when they are equal as multisets of elements, and exactly one
\* Diff, a value_mismatch at that path, otherwise; at a path not listed,
\* two lists with the same distinct elements in a different order give at
\* least one Diff.
C19_ListsComparedAsMultisets ==
  BothListsAtX =>
    LET a == Get(source_doc, "x").elems
        b == Get(target_doc, "x").elems
    IN IF <<"x">> \in array_order_insensitive_paths
       THEN IF ElementBag(a) = ElementBag(b)
            THEN diffs = << >>
            ELSE /\ Len(diffs) = 1
                 /\ diffs[1].path = <<"x">>
                 /\ diffs[1].kind = "value_mismatch"
       ELSE (/\ ElementBag(a) = ElementBag(b)
             /\ a # b
             /\ \A i, j \in DOMAIN a : i # j => a[i] # a[j]) => Len(diffs) >= 1

\* The paths present in both values, reached through dicts and through
\* lists compared element by element, at which the two values are of
\* different kinds, each with the names of the two kinds.
RECURSIVE KindMismatches(_, _, _, _)
KindMismatches(a, b, path, paths) ==
  IF a.type # b.type
  THEN {[path |-> path, source |-> TypeName(a), target |-> TypeName(b)]}
  ELSE IF a.type = "dict"
  THEN UNION {KindMismatches(Get(a, k), Get(b, k), NextPath(path, k), paths) :
                k \in Keys(a) \cap Keys(b)}
  ELSE IF a.type = "list" /\ path \notin paths
  THEN UNION {KindMismatches(a.elems[i], b.elems[i], IndexPath(path, i - 1), paths) :
                i \in 1..Min(Len(a.elems), Len(b.elems))}
  ELSE {}

StrictPrefix(p, q) == Len(p) < Len(q) /\ SubSeq(q, 1, Len(p)) = p

\* C20: where the two values at a path present in both documents are of
\* different kinds, there is exactly one Diff with that path, a
\* type_mismatch carrying the names of the two kinds, and no Diff below
\* that path.
C20_KindMismatchReportedOnce ==
  cmp_pc = "returned" =>
    \A m \in KindMismatches(
               Prune(source_doc, ExcludeAnywhere(exclude_fields), ExcludePaths(exclude_fields), << >>),
               Prune(target_doc, ExcludeAnywhere(exclude_fields), ExcludePaths(exclude_fields), << >>),
               << >>, array_order_insensitive_paths) :
      /\ Cardinality({i \in DOMAIN diffs : diffs[i].path = m.path}) = 1
      /\ \A i \in DOMAIN diffs :
           /\ diffs[i].path = m.path =>
                /\ diffs[i].kind = "type_mismatch"
                /\ diffs[i].source = StrVal(m.source)
                /\ diffs[i].target = StrVal(m.target)
           /\ ~StrictPrefix(m.path, diffs[i].path)

\* C20 witness: the int 1 against the float 1.0 at x, reported as one
\* type_mismatch with the names int and float.
C20_Witness ==
  /\ cmp_pc = "returned"
  /\ "x" \in Keys(source_doc) /\ "x" \in Keys(target_doc)
  /\ Get(source_doc, "x") = IntVal(1) /\ Get(target_doc, "x") = FloatVal(1)
  /\ \E i \in DOMAIN diffs :
       /\ diffs[i].path = <<"x">>
       /\ diffs[i].kind = "type_mismatch"
       /\ diffs[i].source = StrVal("int")
       /\ diffs[i].target = StrVal("float")

\* C21: compute_sample_size returns 0 when the total is 0; for a total T > 0
\* it returns max(1, min(T, floor(T * p / 100))) with a percentage p and
\* max(1, min(T, c)) with a count c, a value between 1 and T.
C21_SampleSizeIsClampedFloor ==
  cs_pc = "returned" =>
    /\ cs_total = 0 => cs_size = 0
    /\ cs_total > 0 =>
         /\ cs_size \in 1..cs_total
         /\ cs_percentage # None =>
              cs_size = Max(1, Min(cs_total, (cs_total * cs_percentage[1]) \div 100))
         /\ cs_count # None => cs_size = Max(1, Min(cs_total, cs_count[1]))

\* C22: when an enabled collection has no business key, in its own entry or
\* in collection_defaults, the run fails before any store I/O: no driver was
\* constructed, no count or sampling call was made, and the journal of no
\* collection was modified.
C22_NoBusinessKeyFailsBeforeIO ==
  error = "no_business_key" =>
    /\ source = "none" /\ target = "none"
    /\ stats = NewStats(<< >>, 0, 0, 0) /\ sampled = << >>
    /\ journal \in {[p \in LogPaths |-> << >>], [p \in LogPaths |-> <<StaleRecord>>]}

\* C23: only a collection with an entry in cfg.collections is ever processed
\* (has its journal cleared, is counted, sampled or compared): all-collections
\* mode runs over the listed names that have an entry, and single-collection
\* mode rejects a name that has none.
C23_OnlyConfiguredCollectionsProcessed ==
  pc \in {"count", "sample", "compare", "shutdown", "summary"} =>
    collections[ci] \in DOMAIN cfg_collections

\* C24: the process exits with status 0 exactly when the run completed
\* without error, and with status 2 for every fatal error: while loading the
\* configuration, while constructing a driver, or while processing a
\* collection.
C24_ExitCodeZeroOrTwo ==
  main_pc = "exited" =>
    IF main_error = "none" /\ error = "none" THEN exit_code = Some(0)
    ELSE exit_code = Some(2)

\* The value of a document at a field path, given as its field names: the
\* value reached through the inner documents, null when a name is missing
\* on the way or the way leads through a value that is no document.
RECURSIVE ValueAtPath(_, _)
ValueAtPath(d, keys) ==
  IF keys = << >> THEN d
  ELSE IF d.type # "dict" \/ Head(keys) \notin Keys(d) THEN Null
  ELSE ValueAtPath(Get(d, Head(keys)), Tail(keys))

HasBusinessKey(d) == ValueAtPath(d, KeysOnPath(bk_key)) # Null
WithBusinessKey == SelectSeq(bk_sampled, HasBusinessKey)

\* C25: a sampled document is counted in source_missing_business_key and
\* dropped exactly when it has no value at the business-key field path,
\* dotted paths into inner documents included; a document with a value
\* becomes a candidate and has exactly one target lookup, with that value.
C25_MissingExactlyWithoutKeyValue ==
  bk_pc = "done" =>
    /\ bk_missing = Len(bk_sampled) - Len(WithBusinessKey)
    /\ bk_candidates = [i \in DOMAIN WithBusinessKey |->
                          [key_value |-> ValueAtPath(WithBusinessKey[i], KeysOnPath(bk_key)),
                           src_doc |-> WithBusinessKey[i]]]
    /\ bk_lookups = [i \in DOMAIN WithBusinessKey |->
                       ValueAtPath(WithBusinessKey[i], KeysOnPath(bk_key))]

\* How often x occurs in the sequence s.
CountIn(s, x) == Cardinality({i \in DOMAIN s : s[i] = x})

\* C26: with no scan cap, the heap never holds more than sample_size
\* entries during the scan, and the list the call returns holds
\* min(sample_size, n) of the n non-null keys scanned, those with the
\* smallest scores (no key left out scores below a key returned), sorted
\* ascending by score.
C26_SmallestScoresSelected ==
  max_scan_keys = None =>
    /\ Len(heap) <= k_sample_size
    /\ sel_pc = "done" =>
         /\ Len(selected) = Min(k_sample_size, Len(NonNull(iter_keys)))
         /\ \A i \in DOMAIN selected :
              CountIn(selected, selected[i]) <= CountIn(iter_keys, selected[i])
         /\ \A i \in DOMAIN iter_keys :
              (/\ iter_keys[i] # NullKey
               /\ CountIn(selected, iter_keys[i]) < CountIn(iter_keys, iter_keys[i])) =>
                \A j \in DOMAIN selected :
                  StableScore(digest, iter_keys[i]) >= StableScore(digest, selected[j])
         /\ \A i, j \in DOMAIN selected :
              i < j => StableScore(digest, selected[i]) <= StableScore(digest, selected[j])

\* C26 witness: the call returned from a stream with more non-null keys
\* than sample_size, and the key yielded last, having replaced a key with a
\* larger score in the full heap, is among the keys returned.
C26_Witness ==
  /\ sel_pc = "done"
  /\ max_scan_keys = None
  /\ k_sample_size >= 1
  /\ Len(NonNull(iter_keys)) > k_sample_size
  /\ Len(selected) = k_sample_size
  /\ iter_keys[Len(iter_keys)] # NullKey
  /\ CountIn(iter_keys, iter_keys[Len(iter_keys)]) = 1
  /\ CountIn(selected, iter_keys[Len(iter_keys)]) = 1

\* C27: in the retry helper, after the i-th attempt failed with a
\* rate-limit error and i < A, there is exactly one wait before attempt
\* i + 1: of the server's retry-after when the error carries one, never
\* negative, and of base_delay * 2^(i-1) when it carries none.  No other
\* wait is made.
C27_OneWaitBetweenAttempts ==
  UsesRetryHelper(api, operation) =>
    /\ Len(sleeps) \in {Len(history) - 1, Len(history)}
    /\ \A i \in DOMAIN history :
         i < Len(history) \/ rt_pc \in {"returned", "raised"} =>
           (i \in DOMAIN sleeps <=> i < Len(history))
    /\ \A i \in DOMAIN sleeps :
         /\ i < retry_max_attempts
         /\ ~history[i].ok /\ RateLimited(history[i].exc)
         /\ sleeps[i] >= 0
         /\ LET header == history[i].exc.header
            IN /\ (header.present /\ header.parses) => sleeps[i] = Max(0, header.ms)
               /\ ~header.present => sleeps[i] = retry_base_delay_ms * Pow2(i - 1)

\* C27 witness: three attempts were made, the first throttled with a
\* retry-after header, the second throttled without one, and the second wait
\* was twice a positive base delay.
C27_Witness ==
  /\ UsesRetryHelper(api, operation)
  /\ Len(history) = 3
  /\ Len(sleeps) = 2
  /\ history[1].exc.header.present /\ history[1].exc.header.parses
  /\ sleeps[1] = history[1].exc.header.ms
  /\ ~history[2].exc.header.present
  /\ retry_base_delay_ms > 0
  /\ sleeps[2] = 2 * retry_base_delay_ms

\* C28: the draining loop consumes the results in the order in which the
\* tasks finish: while the result of a finished task has not been counted,
\* the loop can take a result, even when a task submitted before it is still
\* running.
C28_FinishedResultsAreNotHeldBack ==
  (/\ pc = "compare"
   /\ \E j \in DOMAIN tasks : j > processed /\ tasks[j].state = "done") =>
    ENABLED DrainResult

\* C29: two distinct collection names never share a journal file, whatever
\* the names, names that differ only in characters the sanitization
\* replaces included: the collections of a run have their journals at
\* distinct paths.
C29_DistinctNamesDistinctJournals ==
  \A i, j \in DOMAIN collections :
    collections[i] # collections[j] =>
      CollectionLogPath(collections[i]) # CollectionLogPath(collections[j])

\* C30: under concurrent calls of find_by_business_key no update of the
\* shared counters is lost: once no call is in progress,
\* _point_lookup_calls is the number of lookups that completed and
\* _point_lookup_found the number of them that returned a document, under
\* every interleaving of the threads.
C30_NoLostCounterUpdate ==
  (\A t \in DOMAIN lookup_threads : lookup_threads[t].at = "idle") =>
    /\ point_lookup_calls = lookups_completed
    /\ point_lookup_found = lookups_returned_doc

====
